---- MODULE Spec2Model ----
(***************************************************************************)
(* A model of the RSS feed generator: the origin fetcher (HttpService),    *)
(* the feed discovery engine (AdvancedRSSDetector), and the orchestrator   *)
(* with its result cache (FeedService over ScraperService).                *)
(*                                                                         *)
(* Time is in milliseconds and kept relative to Date.now(): a timestamp    *)
(* the code stores is held as its age, a setTimeout as the time left on    *)
(* it.  An age is capped where the code no longer tells it from a larger   *)
(* one.  Time never passes a timer that is due and has not fired.          *)
(***************************************************************************)
EXTENDS Integers, Sequences, FiniteSets, TLC

(***************************************************************************)
(* Bounds of the model.                                                    *)
(***************************************************************************)
MaxCalls == 4          \* public HttpService calls made in one behaviour
MaxGateSteps == 4      \* fine clock steps taken in one behaviour
MaxFinds == 2          \* findRSSFeed calls made in one behaviour
MaxFeeds == 2          \* generateFeed calls made in one behaviour
MaxEras == 2           \* clock steps taken while feeds are served
MaxElems == 4          \* article elements found on one page
MaxStores == 4         \* steps of the content cache as a map in one behaviour
MaxKeyed == 3          \* requests and clears of the content cache by key
MaxOver == 2           \* requests of a client beyond rateLimitMax in one window
MaxArrivals == 5       \* rateLimit() calls made in one behaviour

Callers == {"c1", "c2"}               \* concurrent callers of HttpService
Urls == {"u1", "u2"}                  \* absolute URLs fetched
Procs == {"p1", "p2"}                 \* concurrent requests being served

Min(a, b) == IF a <= b THEN a ELSE b
Max(a, b) == IF a >= b THEN a ELSE b

RECURSIVE Pow2(_)
Pow2(n) == IF n <= 0 THEN 1 ELSE 2 * Pow2(n - 1)

RECURSIVE SetMin(_)
SetMin(S) == LET x == CHOOSE y \in S : TRUE
             IN IF S = {x} THEN x ELSE Min(x, SetMin(S \ {x}))

(***************************************************************************)
(* HttpService: constants of the code.                                     *)
(***************************************************************************)
minDelay == 100                       \* this.minDelay
maxRetriesOneMore == 3 + 1
maxRetries == 3                       \* makeRequestWithRetry
BlockThresholdTwo == 3 - 1
BlockThreshold == 3                   \* failCount >= 3
BlockMs == 5 * 60 * 1000              \* auto-unblock delay

CoarseMs == BlockMs \div 2            \* the clock step of the circuit breaker
GateStepMs == minDelay \div 2         \* the clock step of the rate gate

\* what the origin can answer; 0 stands for "no response" (network error)
NoResponse == 0
noRetryStatuses == {400, 401, 403, 404, 405, 406, 410, 451}
Statuses == {200, 429, 500, NoResponse} \cup noRetryStatuses
FewStatuses == {200, 404, 500}        \* one answer of each kind
FinalStatuses == {200, 404}           \* answers that end the call

\* the errors module exports no HttpError: `new HttpError(...)` is a TypeError
HttpErrorExported == FALSE

VARIABLES
    fineSteps,           \* fine clock steps taken so far
    \* ---- HttpService
    lastRequestAge,      \* Date.now() - this.lastRequestTime, capped at minDelay
    blockedUrls,         \* this.blockedUrls
    urlFailCounts,       \* this.urlFailCounts (0: no entry)
    unblockTimers,       \* pending auto-unblock timers, in creation order
    \* ---- the callers of HttpService (one async call chain each)
    caller,              \* per caller: where its call is suspended
    result,              \* per caller: what its last call returned or threw
    callsLeft,           \* public calls still to be made
    \* ---- history
    windowLeft,          \* per URL: time left of its latest block period
    lastStartAge,        \* time since the latest network request started (capped)
    minGap,              \* smallest gap seen between two request starts (capped)
    failRun,             \* per URL: fetches that failed since its last success
    \* ---- AdvancedRSSDetector
    rssCache,            \* this.rssCache: per URL the feed URL and its age
    failedUrlCache,      \* this.failedUrlCache
    failedTimers,        \* pending timers of markAsFailed, in creation order
    disc,                \* per request: where its findRSSFeed is suspended
    found,               \* per request: what its last findRSSFeed returned
    findsLeft,           \* findRSSFeed calls still to be made
    hourFeed,            \* per page: the feed URL a discovery succeeded with, and what is left of its hour
    recent4xx,           \* pages that answered a non-retryable 4xx since time last passed
    \* ---- FeedService
    feedCache,           \* this.feedCache and this.cacheTimestamps (as ages)
    feed,                \* per request: where its generateFeed is suspended
    served,              \* per request: what its last generateFeed returned
    feedsLeft,           \* generateFeed calls still to be made
    era,                 \* clock steps taken: the time written into feeds
    history,             \* per key: the last two responses returned
    \* ---- the router and its controller
    controller,          \* which FeedController source the router loaded
    web,                 \* the HTTP request being served
    \* ---- URL normalization
    norm,                \* a URL, the function applied to it, and its results
    \* ---- ContentParserService
    parser,              \* parseArticles: its loop over the article elements
    \* ---- FeedService, the making of the XML
    assembler,           \* the last processExistingRSS or createRSSFeed call
    \* ---- the error middleware
    reply,               \* the error errorHandler was given and its response
    \* ---- AdvancedRSSDetector, a domain rule on the text of a URL
    proposal,            \* the pathname a rule was applied to and the result
    \* ---- FeedService, the content cache as a map in insertion order
    store,               \* feedCache / cacheTimestamps, the clock, the last insertion
    \* ---- FeedService, the content cache by its keys
    shelf,               \* the service loaded, its entries by key, the last request
    \* ---- HttpService / AdvancedRSSDetector, rateLimit() on its own
    gate,                \* lastRequestTime, the sleepers of rateLimit(), the order of passage
    \* ---- the rateLimiter middleware
    limiter              \* its Map of clients, the requests it let through, the last request

httpVars == <<lastRequestAge, blockedUrls, urlFailCounts, unblockTimers>>
callerVars == <<caller, result, callsLeft>>
histVars == <<windowLeft, lastStartAge, minGap, failRun>>
allHttpVars == <<fineSteps, httpVars, callerVars, histVars>>
discVars ==
    <<rssCache, failedUrlCache, failedTimers, disc, found, findsLeft, recent4xx,
      hourFeed>>
feedVars == <<feedCache, feed, served, feedsLeft, era, history>>
webVars == <<controller, web>>
pureVars == <<norm, parser, assembler, reply, proposal, store, shelf, gate, limiter>>
exceptNorm == <<parser, assembler, reply, proposal, store, shelf, gate, limiter>>
exceptParser == <<norm, assembler, reply, proposal, store, shelf, gate, limiter>>
exceptAssembler == <<norm, parser, reply, proposal, store, shelf, gate, limiter>>
exceptReply == <<norm, parser, assembler, proposal, store, shelf, gate, limiter>>
exceptProposal == <<norm, parser, assembler, reply, store, shelf, gate, limiter>>
exceptStore == <<norm, parser, assembler, reply, proposal, shelf, gate, limiter>>
exceptShelf == <<norm, parser, assembler, reply, proposal, store, gate, limiter>>
exceptGate == <<norm, parser, assembler, reply, proposal, store, shelf, limiter>>
exceptLimiter == <<norm, parser, assembler, reply, proposal, store, shelf, gate>>
otherVars == <<webVars, pureVars>>
serviceVars == <<allHttpVars, discVars, feedVars>>
vars == <<serviceVars, otherVars>>

(***************************************************************************)
(* Errors.                                                                 *)
(***************************************************************************)
Err(name, status, msg) == [name |-> name, status |-> status, msg |-> msg]
NoError == Err("", 0, "")

\* what axios rejects with: error.response.status is the status, if any
AxiosError(s) ==
    Err("AxiosError", s, IF s = NoResponse THEN "network"
                         ELSE IF s = 406 THEN "status 406" ELSE "status")

\* `new HttpError(message, url, status)`
NewHttpError(msg, status) ==
    IF HttpErrorExported
    THEN Err("HttpError", status, msg)
    ELSE Err("TypeError", 0, "HttpError is not a constructor")

\* error.response?.status of a thrown value: only axios errors carry a response
ResponseStatus(e) == IF e.name = "AxiosError" THEN e.status ELSE 0

\* fetchHtml's catch: throw new HttpError(error.message, url, error.response?.status || 0)
FetchHtmlThrows(e) == NewHttpError(e.msg, ResponseStatus(e))

\* getSiteMetadata's catch: throw new HttpError(`Failed ...`, url, error.status || 0)
MetadataThrows(e) == NewHttpError("metadata", e.status)

\* what the public method k throws when its fetchHtml threw e
Thrown(k, e) == IF k = "getSiteMetadata" THEN MetadataThrows(e) ELSE e

(***************************************************************************)
(* HttpService: pure helpers.                                              *)
(***************************************************************************)
shouldNotRetryWithout406(status) == status \in noRetryStatuses \ {406}
shouldNotRetry(status) == status \in noRetryStatuses

isUrlBlocked(u) == u \in blockedUrls

\* Math.min(1000 * Math.pow(2, attempt - 1), 5000)
BackoffDelay(a) == Min(1000 * Pow2(a - 1), 5000)

\* axios resolves on a 2xx answer and rejects otherwise
IsSuccess(s) == s >= 200 /\ s < 300

(***************************************************************************)
(* The state after construction.  A call in progress is a record; a        *)
(* finished call leaves what it returned or threw, with its history.       *)
(***************************************************************************)
IdleCaller ==
    [pc |-> "idle", op |-> "none", url |-> "-", attempt |-> 0, wait |-> 0,
     answers |-> <<>>, netCalls |-> 0, inWindow |-> FALSE]

NoResult ==
    [kind |-> "none", error |-> NoError, op |-> "none", url |-> "-",
     answers |-> <<>>, netCalls |-> 0, inWindow |-> FALSE]

\* the call r ends: kind is "ok", "error" (thrown) or "report" (checkUrl's)
Outcome(r, kind, e) ==
    [kind |-> kind, error |-> e, op |-> r.op, url |-> r.url,
     answers |-> r.answers, netCalls |-> r.netCalls, inWindow |-> r.inWindow]

InitHttp ==
    /\ fineSteps = 0
    /\ lastRequestAge = minDelay
    /\ blockedUrls = {}
    /\ urlFailCounts = [u \in Urls |-> 0]
    /\ unblockTimers = <<>>
    /\ caller = [c \in Callers |-> IdleCaller]
    /\ result = [c \in Callers |-> NoResult]
    /\ callsLeft = MaxCalls
    /\ windowLeft = [u \in Urls |-> 0]
    /\ lastStartAge = minDelay
    /\ minGap = minDelay
    /\ failRun = [u \in Urls |-> 0]

(***************************************************************************)
(* HttpService.handleRequestError(url, error): count the failure; at three *)
(* block the URL and arm a 5-minute timer that unblocks it.  windowLeft    *)
(* notes when a URL that was not blocked becomes blocked, failRun counts   *)
(* the failed fetches of the URL since its last successful one.            *)
(***************************************************************************)
handleRequestError(u) ==
    LET failCount == urlFailCounts[u] + 1 IN
    /\ urlFailCounts' = [urlFailCounts EXCEPT ![u] = failCount]
    /\ failRun' = [failRun EXCEPT ![u] = @ + 1]
    /\ IF failCount >= BlockThreshold
       THEN /\ blockedUrls' = blockedUrls \cup {u}
            /\ unblockTimers' =
                   Append(unblockTimers, [url |-> u, left |-> BlockMs])
            /\ windowLeft' = IF u \in blockedUrls
                             THEN windowLeft
                             ELSE [windowLeft EXCEPT ![u] = BlockMs]
       ELSE UNCHANGED <<blockedUrls, unblockTimers, windowLeft>>

\* a network request starts now
NoteStart ==
    /\ minGap' = IF lastStartAge > 0 THEN Min(minGap, lastStartAge) ELSE minGap
    /\ lastStartAge' = 0

(***************************************************************************)
(* HttpService.fetchHtml(url), up to its first suspension, for the call    *)
(* record r of caller c (getSiteMetadata falls back to fetchHtml).         *)
(*  - blocked: the throw inside the try lands in fetchHtml's own catch,    *)
(*    which runs handleRequestError and throws again;                      *)
(*  - rateLimit(): sleep when the last gate passage is under minDelay ago, *)
(*    else pass, and makeRequestWithRetry starts attempt 1.                *)
(***************************************************************************)
BeginFetchHtml(c, r) ==
    IF isUrlBlocked(r.url)
    THEN /\ handleRequestError(r.url)
         /\ caller' = [caller EXCEPT ![c] = IdleCaller]
         /\ result' = [result EXCEPT ![c] = Outcome(r, "error",
                Thrown(r.op, FetchHtmlThrows(NewHttpError("blocked", 429))))]
         /\ UNCHANGED <<lastRequestAge, lastStartAge, minGap>>
    ELSE /\ result' = [result EXCEPT ![c] = NoResult]
         /\ UNCHANGED <<blockedUrls, urlFailCounts, unblockTimers, windowLeft, failRun>>
         /\ IF lastRequestAge < minDelay
            THEN /\ caller' = [caller EXCEPT ![c] =
                        [r EXCEPT !.pc = "gateGet",
                                  !.wait = minDelay - lastRequestAge]]
                 /\ UNCHANGED <<lastRequestAge, lastStartAge, minGap>>
            ELSE /\ lastRequestAge' = 0
                 /\ caller' = [caller EXCEPT ![c] =
                        [r EXCEPT !.pc = "request", !.attempt = 1,
                                  !.netCalls = @ + 1]]
                 /\ NoteStart

\* a caller calls fetchHtml(u)
CallFetchHtml(c, u) ==
    /\ caller[c].pc = "idle"
    /\ callsLeft > 0
    /\ callsLeft' = callsLeft - 1
    /\ BeginFetchHtml(c, [IdleCaller EXCEPT !.op = "fetchHtml", !.url = u,
                                            !.inWindow = windowLeft[u] > 0])
    /\ UNCHANGED fineSteps
    /\ UNCHANGED <<discVars, feedVars, otherVars>>

(***************************************************************************)
(* HttpService.checkUrl(url), also as the first step of getSiteMetadata:   *)
(* rateLimit(), then a HEAD request.  It never asks isUrlBlocked.          *)
(***************************************************************************)
CallCheckUrl(c, u, k) ==
    /\ caller[c].pc = "idle"
    /\ callsLeft > 0
    /\ callsLeft' = callsLeft - 1
    /\ result' = [result EXCEPT ![c] = NoResult]
    /\ LET r == [IdleCaller EXCEPT !.op = k, !.url = u,
                                   !.inWindow = windowLeft[u] > 0]
       IN IF lastRequestAge < minDelay
          THEN /\ caller' = [caller EXCEPT ![c] =
                      [r EXCEPT !.pc = "gateHead",
                                !.wait = minDelay - lastRequestAge]]
               /\ UNCHANGED <<lastRequestAge, lastStartAge, minGap>>
          ELSE /\ lastRequestAge' = 0
               /\ caller' = [caller EXCEPT ![c] =
                      [r EXCEPT !.pc = "head", !.netCalls = @ + 1]]
               /\ NoteStart
    /\ UNCHANGED <<fineSteps, blockedUrls, urlFailCounts, unblockTimers, windowLeft, failRun>>
    /\ UNCHANGED <<discVars, feedVars, otherVars>>

(***************************************************************************)
(* rateLimit(): the sleep ends; lastRequestTime = Date.now() and the       *)
(* request the caller was about to make starts.                            *)
(***************************************************************************)
GateWake(c) ==
    /\ caller[c].pc \in {"gateGet", "gateHead"}
    /\ caller[c].wait = 0
    /\ lastRequestAge' = 0
    /\ caller' = [caller EXCEPT ![c] =
           IF caller[c].pc = "gateGet"
           THEN [@ EXCEPT !.pc = "request", !.attempt = 1, !.netCalls = @ + 1]
           ELSE [@ EXCEPT !.pc = "head", !.netCalls = @ + 1]]
    /\ NoteStart
    /\ UNCHANGED <<fineSteps, blockedUrls, urlFailCounts, unblockTimers,
                   result, callsLeft, windowLeft, failRun>>
    /\ UNCHANGED <<discVars, feedVars, otherVars>>

(***************************************************************************)
(* makeRequestWithRetry: axios.get of attempt n is answered with status s  *)
(* (NoResponse: a network error or the timeout).                           *)
(*  - success: fetchHtml deletes the URL's fail count and returns;         *)
(*  - shouldNotRetry(s), or the last attempt: the error reaches            *)
(*    fetchHtml's catch (handleRequestError, then the throw);              *)
(*  - else sleep min(1000 * 2^(n-1), 5000) ms and try again.               *)
(***************************************************************************)
GetResponse(c, s) ==
    LET r == [caller[c] EXCEPT !.answers = Append(@, s)] IN
    /\ r.pc = "request"
    /\ IF IsSuccess(s)
       THEN /\ urlFailCounts' = [urlFailCounts EXCEPT ![r.url] = 0]
            /\ failRun' = [failRun EXCEPT ![r.url] = 0]
            /\ caller' = [caller EXCEPT ![c] = IdleCaller]
            /\ result' = [result EXCEPT ![c] = Outcome(r, "ok", NoError)]
            /\ UNCHANGED <<blockedUrls, unblockTimers, windowLeft>>
       ELSE IF shouldNotRetry(s) \/ r.attempt = maxRetries
       THEN /\ handleRequestError(r.url)
            /\ caller' = [caller EXCEPT ![c] = IdleCaller]
            /\ result' = [result EXCEPT ![c] = Outcome(r, "error",
                   Thrown(r.op, FetchHtmlThrows(AxiosError(s))))]
       ELSE /\ caller' = [caller EXCEPT ![c] =
                   [r EXCEPT !.pc = "backoff", !.wait = BackoffDelay(r.attempt)]]
            /\ UNCHANGED <<blockedUrls, urlFailCounts, unblockTimers,
                           windowLeft, failRun, result>>
    /\ UNCHANGED <<fineSteps, lastRequestAge, callsLeft, lastStartAge, minGap>>
    /\ UNCHANGED <<discVars, feedVars, otherVars>>

\* the backoff sleep ends: the next attempt starts, without passing rateLimit()
BackoffWake(c) ==
    /\ caller[c].pc = "backoff"
    /\ caller[c].wait = 0
    /\ caller' = [caller EXCEPT ![c] =
           [@ EXCEPT !.pc = "request", !.attempt = @ + 1, !.netCalls = @ + 1]]
    /\ NoteStart
    /\ UNCHANGED <<fineSteps, httpVars, result, callsLeft, windowLeft, failRun>>
    /\ UNCHANGED <<discVars, feedVars, otherVars>>

(***************************************************************************)
(* checkUrl: the HEAD request is answered.  checkUrl returns a report and  *)
(* never throws.  getSiteMetadata throws when the report says not          *)
(* accessible, else sends a Range GET at once (no rateLimit()).            *)
(***************************************************************************)
HeadResponse(c, s) ==
    LET r == caller[c] IN
    /\ r.pc = "head"
    /\ IF r.op = "checkUrl"
       THEN /\ caller' = [caller EXCEPT ![c] = IdleCaller]
            /\ result' = [result EXCEPT ![c] = Outcome(r, "report",
                   IF IsSuccess(s) THEN NoError ELSE AxiosError(s))]
            /\ UNCHANGED <<lastStartAge, minGap>>
       ELSE IF ~IsSuccess(s)
       THEN /\ caller' = [caller EXCEPT ![c] = IdleCaller]
            /\ result' = [result EXCEPT ![c] = Outcome(r, "error",
                   MetadataThrows(NewHttpError("not accessible", s)))]
            /\ UNCHANGED <<lastStartAge, minGap>>
       ELSE /\ caller' = [caller EXCEPT ![c] =
                   [r EXCEPT !.pc = "range", !.netCalls = @ + 1]]
            /\ NoteStart
            /\ UNCHANGED result
    /\ UNCHANGED <<fineSteps, httpVars, callsLeft, windowLeft, failRun>>
    /\ UNCHANGED <<discVars, feedVars, otherVars>>

\* getSiteMetadata: the Range GET is answered; on an error fall back to fetchHtml
RangeResponse(c, s) ==
    LET r == caller[c] IN
    /\ r.pc = "range"
    /\ IF IsSuccess(s)
       THEN /\ caller' = [caller EXCEPT ![c] = IdleCaller]
            /\ result' = [result EXCEPT ![c] = Outcome(r, "ok", NoError)]
            /\ UNCHANGED <<httpVars, windowLeft, failRun, lastStartAge, minGap>>
       ELSE BeginFetchHtml(c, r)
    /\ UNCHANGED <<fineSteps, callsLeft>>
    /\ UNCHANGED <<discVars, feedVars, otherVars>>

\* a timer callback that forgets the fail count and leaves the URL blocked
UnblockTimerFiresCountOnly ==
    /\ unblockTimers # <<>>
    /\ Head(unblockTimers).left = 0
    /\ urlFailCounts' = [urlFailCounts EXCEPT ![Head(unblockTimers).url] = 0]
    /\ unblockTimers' = Tail(unblockTimers)
    /\ UNCHANGED <<fineSteps, lastRequestAge, blockedUrls, callerVars, histVars>>
    /\ UNCHANGED <<discVars, feedVars, otherVars>>

\* the oldest auto-unblock timer fires
UnblockTimerFires ==
    /\ unblockTimers # <<>>
    /\ Head(unblockTimers).left = 0
    /\ blockedUrls' = blockedUrls \ {Head(unblockTimers).url}
    /\ urlFailCounts' = [urlFailCounts EXCEPT ![Head(unblockTimers).url] = 0]
    /\ unblockTimers' = Tail(unblockTimers)
    /\ UNCHANGED <<fineSteps, lastRequestAge, callerVars, histVars>>
    /\ UNCHANGED <<discVars, feedVars, otherVars>>

(***************************************************************************)
(* Time passes.  A sleeping caller wakes when its sleep is over and a      *)
(* timer fires when due: time stops at the next of these and moves on      *)
(* once it is served.  The origin may take any time to answer.             *)
(***************************************************************************)
Sleeping == {c \in Callers : caller[c].pc \in {"gateGet", "gateHead", "backoff"}}
TimeLeft == {caller[c].wait : c \in Sleeping}
                \cup {unblockTimers[i].left : i \in DOMAIN unblockTimers}

\* how far time moves when asked to move by step
Stride(step) == IF TimeLeft = {} THEN step ELSE Min(step, SetMin(TimeLeft))

HttpTimePasses(d) ==
    /\ \A t \in TimeLeft : t > 0
    /\ lastRequestAge' = Min(lastRequestAge + d, minDelay)
    /\ lastStartAge' = Min(lastStartAge + d, minDelay)
    /\ unblockTimers' = [i \in DOMAIN unblockTimers |->
                            [unblockTimers[i] EXCEPT !.left = @ - d]]
    /\ caller' = [c \in Callers |->
                     IF c \in Sleeping THEN [caller[c] EXCEPT !.wait = @ - d]
                     ELSE caller[c]]
    /\ windowLeft' = [u \in Urls |-> Max(windowLeft[u] - d, 0)]
    /\ UNCHANGED <<blockedUrls, urlFailCounts, result, callsLeft, minGap, failRun>>

\* up to half a block period passes
TickCoarse ==
    /\ HttpTimePasses(Stride(CoarseMs))
    /\ UNCHANGED fineSteps
    /\ UNCHANGED <<discVars, feedVars, otherVars>>

\* up to half a gate delay passes
TickFine ==
    /\ fineSteps < MaxGateSteps
    /\ fineSteps' = fineSteps + 1
    /\ HttpTimePasses(Stride(GateStepMs))
    /\ UNCHANGED <<discVars, feedVars, otherVars>>

\* every step of a call but the end of a backoff sleep
CallStep(Cs, S) ==
    \/ \E c \in Cs, u \in Urls : CallFetchHtml(c, u)
    \/ \E c \in Cs, u \in Urls, k \in {"checkUrl", "getSiteMetadata"} :
           CallCheckUrl(c, u, k)
    \/ \E c \in Cs : GateWake(c)
    \/ \E c \in Cs, s \in S : GetResponse(c, s)
    \/ \E c \in Cs, s \in S : HeadResponse(c, s)
    \/ \E c \in Cs, s \in S : RangeResponse(c, s)

HttpStep(Cs, S) == CallStep(Cs, S) \/ \E c \in Cs : BackoffWake(c)

(***************************************************************************)
(* URLs and documents.  A URL is its host and its path segments (and       *)
(* whether it ends with a slash); a document is what the detector and the  *)
(* scraper look at in a body: its length, the markers in it as written,    *)
(* the <link> elements of its head, its items and whether it parses.       *)
(***************************************************************************)
Url(h, p) == [host |-> h, path |-> p, slash |-> FALSE]
NoUrl == Url("", <<>>)

\* a text that is not a URL: new URL(text) throws
BadUrl == Url("not a url", <<>>)
Parses(u) == u # BadUrl

\* the URLs discovery is asked about
Sites ==
    { Url("vnexpress.net", <<>>),
      [Url("blog.example", <<"news", "tech">>) EXCEPT !.slash = TRUE],
      BadUrl }

Link(type, rel, path) == [type |-> type, rel |-> rel, href |-> path]
Doc(len, marks, links, items, parses) ==
    [len |-> len, marks |-> marks, links |-> links, items |-> items,
     parses |-> parses]

NoDoc == Doc(0, {}, <<>>, 0, FALSE)                 \* null, or the empty string
RssDoc == Doc(500, {"<rss", "<channel>"}, <<>>, 25, TRUE)  \* a feed of 25 items
ShortRssDoc == Doc(60, {"<rss"}, <<>>, 1, TRUE)     \* 50 <= length < 100
Docs ==
    { NoDoc, RssDoc, ShortRssDoc,
      \* a page that names feeds
      Doc(500, {"<html"},
          << Link("application/atom+xml", "alternate", <<"atom.xml">>),
             Link("application/rss+xml", "alternate", <<"rss.xml">>) >>, 2, TRUE),
      Doc(500, {"<html"}, <<>>, 0, TRUE),           \* a page with nothing in it
      Doc(40, {"<rss"}, <<>>, 0, FALSE),            \* length < 50
      Doc(500, {"<RSS"}, <<>>, 2, TRUE) }           \* upper-case markup

\* String.prototype.toLowerCase on a marker
Lower(t) == IF t = "<RSS" THEN "<rss" ELSE t

\* what httpService.fetchHtml gives its caller: a body, or one of its errors
\* status is what the origin answered (0: the request was not sent)
Fetched(d) == [ok |-> TRUE, doc |-> d, error |-> NoError, status |-> 200]
Failed(e, s) == [ok |-> FALSE, doc |-> NoDoc, error |-> e, status |-> s]
FetchErrors ==
    {Failed(FetchHtmlThrows(AxiosError(s)), s) : s \in {404, 406, 500}}
        \cup {Failed(FetchHtmlThrows(NewHttpError("blocked", 429)), 0)}
FetchOutcomes == {Fetched(d) : d \in Docs} \cup FetchErrors
\* a long feed, a short feed, and an origin that fails
FewOutcomes ==
    {Fetched(RssDoc), Fetched(ShortRssDoc),
     Failed(FetchHtmlThrows(AxiosError(500)), 500)}

(***************************************************************************)
(* AdvancedRSSDetector: constants and pure helpers.                        *)
(***************************************************************************)
RssTtlMs == 3600000                   \* getCachedRSS: 1 hour
FailedMs == 10 * 60 * 1000            \* markAsFailed: 10 minutes
DiscStepMs == RssTtlMs                \* the clock step of discovery

\* `${urlObj.origin}${urlObj.pathname}`.replace(/\/$/, '')
normalizeUrl(u) == [u EXCEPT !.slash = FALSE]
NormSites == {normalizeUrl(s) : s \in Sites}

\* urlObj.hostname.replace('www.', '')
extractDomain(u) == IF u.host = "www.vnexpress.net" THEN "vnexpress.net" ELSE u.host

\* new URL(relativeUrl, baseUrl).href for a path written from the root
makeAbsoluteUrl(href, base) == Url(base.host, href)

strategiesCommonPathsFirst ==
    <<"Common Paths", "HTML Head", "Domain Rules", "URL Pattern", "WordPress">>
strategies ==
    <<"HTML Head", "Domain Rules", "URL Pattern", "Common Paths", "WordPress">>

\* detectFromHTMLHead: the selectors, in order (type, rel; "" matches any)
rssSelectors ==
    << [type |-> "application/rss+xml", rel |-> ""],
       [type |-> "application/atom+xml", rel |-> ""],
       [type |-> "application/rss+xml", rel |-> "alternate"],
       [type |-> "application/atom+xml", rel |-> "alternate"],
       [type |-> "", rel |-> "feed"] >>

Matches(sel, link) ==
    /\ sel.type = "" \/ link.type = sel.type
    /\ sel.rel = "" \/ link.rel = sel.rel

Cand(u, sel, pos) == [url |-> u, sel |-> sel, pos |-> pos]

\* detectFromHTMLHead: for each selector, each matching link in document order
HeadCandidates(links, base) ==
    LET n == Len(links)
        all == [k \in 1 .. (Len(rssSelectors) * n) |->
                   Cand(makeAbsoluteUrl(links[((k - 1) % n) + 1].href, base),
                        ((k - 1) \div n) + 1, ((k - 1) % n) + 1)]
        Hit(c) == Matches(rssSelectors[c.sel], links[c.pos])
                      /\ links[c.pos].href # <<>>
    IN SelectSeq(all, Hit)

\* loadDomainRules
domainRules ==
    [d \in {"vnexpress.net", "tuoitre.vn"} |->
        IF d = "vnexpress.net"
        THEN << [type |-> "path_to_rss", path |-> <<>>],
                [type |-> "fixed", path |-> <<"rss", "trang-chu.rss">>],
                [type |-> "fixed", path |-> <<"rss">>] >>
        ELSE << [type |-> "fixed", path |-> <<"rss", "tin-moi-nhat.rss">>],
                [type |-> "fixed", path |-> <<"rss">>] >>]

applyDomainRule(u, rule) ==
    IF rule.type = "fixed" THEN Url(u.host, rule.path)
    ELSE IF u.path # <<>> THEN Url(u.host, <<"rss", u.path[1] \o ".rss">>)
    ELSE Url(u.host, <<"rss", "trang-chu.rss">>)

Numbered(urls) == [i \in DOMAIN urls |-> Cand(urls[i], i, 0)]

\* the strategies that start with new URL(url): they throw on a text that
\* is not a URL, and their own catch returns null
Throws(strategy, u) == strategy # "HTML Head" /\ ~Parses(u)

\* the candidates of a strategy that builds them from the URL alone
Candidates(strategy, u) ==
    IF Throws(strategy, u) THEN <<>>
    ELSE IF strategy = "Domain Rules"
    THEN LET d == extractDomain(u)
             rules == IF d \in DOMAIN domainRules THEN domainRules[d] ELSE <<>>
         IN Numbered([i \in DOMAIN rules |-> applyDomainRule(u, rules[i])])
    ELSE IF strategy = "URL Pattern"
    THEN IF Len(u.path) = 1
         THEN Numbered(<< Url(u.host, <<"rss", u.path[1] \o ".rss">>),
                          Url(u.host, <<u.path[1], "feed">>) >>)
         ELSE IF Len(u.path) = 0
         THEN Numbered(<< Url(u.host, <<"rss", "trang-chu.rss">>),
                          Url(u.host, <<"rss">>) >>)
         ELSE <<>>
    ELSE IF strategy = "Common Paths"
    THEN Numbered(<< Url(u.host, <<"rss">>), Url(u.host, <<"feed">>) >>)
    ELSE IF strategy = "WordPress"
    THEN Numbered(<< Url(u.host, u.path \o <<"feed">>), Url(u.host, <<"feed">>) >>)
    ELSE <<>>

\* validateRSSUrl: the test on the fetched body
IsValidRSSAnyLength(doc) ==
    \E t \in doc.marks :
        Lower(t) \in {"<rss", "<feed", "<channel>",
                      "xmlns=\"http://www.w3.org/2005/atom\"", "xmlns:atom="}
IsValidRSS(doc) ==
    /\ doc.len >= 50
    /\ \E t \in doc.marks :
           Lower(t) \in {"<rss", "<feed", "<channel>",
                         "xmlns=\"http://www.w3.org/2005/atom\"", "xmlns:atom="}

\* safeFetchHtml: error.message.includes('406')
Has406(e) == e.msg = "status 406"

(***************************************************************************)
(* AdvancedRSSDetector: state after construction.  A discovery in progress *)
(* is a record; a finished one leaves what findRSSFeed returned, with the  *)
(* strategies it ran and the candidates it tested.                         *)
(***************************************************************************)
NoEntry == [rssUrl |-> NoUrl, age |-> 0, body |-> NoDoc]

IdleDisc ==
    [pc |-> "idle", url |-> NoUrl, strat |-> 0, todo |-> <<>>,
     visited |-> <<>>, trail |-> <<>>]

NoFound ==
    [kind |-> "none", rssUrl |-> NoUrl, body |-> NoDoc, fromCache |-> FALSE,
     url |-> NoUrl, visited |-> <<>>, trail |-> <<>>]

\* findRSSFeed of the discovery r returns: kind is "url" or "null"; body is
\* the body the returned feed URL was validated on
Found(r, kind, e, fromCache) ==
    [kind |-> kind, rssUrl |-> e.rssUrl, body |-> e.body,
     fromCache |-> fromCache, url |-> r.url,
     visited |-> r.visited, trail |-> r.trail]

InitDisc ==
    /\ rssCache = [n \in NormSites |-> NoEntry]
    /\ failedUrlCache = {}
    /\ failedTimers = <<>>
    /\ disc = [p \in Procs |-> IdleDisc]
    /\ found = [p \in Procs |-> NoFound]
    /\ findsLeft = MaxFinds
    /\ recent4xx = {}
    /\ hourFeed = [n \in NormSites |-> [rssUrl |-> NoUrl, left |-> 0]]

\* markAsFailed(url) for each of urls, in order: add it, arm its 10-minute timer
markAsFailed(urls) ==
    /\ failedUrlCache' = failedUrlCache \cup {urls[i] : i \in DOMAIN urls}
    /\ failedTimers' = failedTimers \o
           [i \in DOMAIN urls |-> [url |-> urls[i], left |-> FailedMs]]

\* the strategies from the i-th on that have something to fetch
Fetching(u, i) ==
    {k \in i .. Len(strategies) :
        strategies[k] = "HTML Head" \/ Candidates(strategies[k], u) # <<>>}

\* a loop that a throwing strategy ends: nothing after it is tried
StrategyLoopEndsOnThrow(u, i) ==
    LET thrown == {k \in i .. Len(strategies) : Throws(strategies[k], u)}
        s == IF Fetching(u, i) = {} THEN 0 ELSE SetMin(Fetching(u, i))
        t == IF thrown = {} THEN 0 ELSE SetMin(thrown)
    IN IF t # 0 /\ (s = 0 \/ t < s)
       THEN [stop |-> 0, ran |-> SubSeq(strategies, i, t)]
       ELSE [stop |-> s,
             ran |-> SubSeq(strategies, i, IF s = 0 THEN Len(strategies) ELSE s)]
\* findRSSFeed's loop from the i-th strategy on: a strategy that returns null
\* or throws is followed by the next; stop is the first strategy that has
\* something to fetch (0: none), ran the strategies tried up to it
StrategyLoop(u, i) ==
    LET s == IF Fetching(u, i) = {} THEN 0 ELSE SetMin(Fetching(u, i))
    IN [stop |-> s,
        ran |-> SubSeq(strategies, i, IF s = 0 THEN Len(strategies) ELSE s)]

(***************************************************************************)
(* findRSSFeed, the loop over the strategies from the i-th on, up to the   *)
(* next fetch: a strategy without candidates returns null at once; after   *)
(* the last one the URL is marked as failed and findRSSFeed returns null.  *)
(* marks are the URLs the step has marked as failed before.                *)
(***************************************************************************)
RunStrategies(p, r, i, marks) ==
    LET s == StrategyLoop(r.url, i).stop
        ran == StrategyLoop(r.url, i).ran
        r2 == [r EXCEPT !.visited = @ \o ran]
    IN IF s = 0
       THEN /\ markAsFailed(marks \o <<r.url>>)
            /\ disc' = [disc EXCEPT ![p] = IdleDisc]
            /\ found' = [found EXCEPT ![p] = Found(r2, "null", NoEntry, FALSE)]
       ELSE /\ markAsFailed(marks)
            /\ found' = [found EXCEPT ![p] = NoFound]
            /\ disc' = [disc EXCEPT ![p] =
                   IF strategies[s] = "HTML Head"
                   THEN [r2 EXCEPT !.pc = "page", !.strat = s, !.todo = <<>>]
                   ELSE [r2 EXCEPT !.pc = "probe", !.strat = s,
                                   !.todo = Candidates(strategies[s], r.url)]]

(***************************************************************************)
(* findRSSFeed(url), up to its first fetch: a cached feed URL under one    *)
(* hour old is returned (an older one is deleted); a recently failed URL   *)
(* returns null; else the strategies run.  The sleeps of the detector's    *)
(* rateLimit() only delay the fetches and are instants here.               *)
(***************************************************************************)
BeginFind(p, site) ==
    LET n == normalizeUrl(site)
        e == rssCache[n]
        r == [IdleDisc EXCEPT !.url = n]
    IN /\ UNCHANGED <<recent4xx, hourFeed>>
       /\ IF e # NoEntry /\ e.age < RssTtlMs
          THEN /\ found' = [found EXCEPT ![p] = Found(r, "url", e, TRUE)]
               /\ disc' = [disc EXCEPT ![p] = IdleDisc]
               /\ UNCHANGED <<rssCache, failedUrlCache, failedTimers>>
          ELSE /\ rssCache' = [rssCache EXCEPT ![n] = NoEntry]
               /\ IF n \in failedUrlCache
                  THEN /\ found' = [found EXCEPT ![p] =
                              Found(r, "null", NoEntry, FALSE)]
                       /\ disc' = [disc EXCEPT ![p] = IdleDisc]
                       /\ UNCHANGED <<failedUrlCache, failedTimers>>
                  ELSE RunStrategies(p, r, 1, <<>>)

\* a caller calls findRSSFeed(site)
CallFindRSSFeed(p, site) ==
    /\ disc[p].pc = "idle"
    /\ findsLeft > 0
    /\ findsLeft' = findsLeft - 1
    /\ BeginFind(p, site)
    /\ UNCHANGED <<allHttpVars, feedVars, otherVars>>

(***************************************************************************)
(* detectFromHTMLHead: safeFetchHtml(url) of the page ends with outcome o. *)
(* No body: the strategy returns null.  Else the links of the head are the *)
(* candidates, by selector and then by position.                           *)
(***************************************************************************)
PageFetched(p, o) ==
    LET r == disc[p]
        marks == IF ~o.ok /\ Has406(o.error) THEN <<r.url>> ELSE <<>>
        todo == IF o.ok /\ o.doc # NoDoc
                THEN HeadCandidates(o.doc.links, r.url) ELSE <<>>
    IN /\ r.pc = "page"
       /\ Parses(r.url) \/ (~o.ok /\ o.status = 0)   \* nothing answers a non-URL
       /\ IF todo = <<>>
          THEN RunStrategies(p, r, r.strat + 1, marks)
          ELSE /\ markAsFailed(marks)
               /\ disc' = [disc EXCEPT ![p] = [r EXCEPT !.pc = "probe", !.todo = todo]]
               /\ UNCHANGED found
       /\ recent4xx' = recent4xx \cup
              (IF o.status \in noRetryStatuses THEN {r.url} ELSE {})
       /\ UNCHANGED <<rssCache, findsLeft, hourFeed>>
       /\ UNCHANGED <<allHttpVars, feedVars, otherVars>>

\* a mutation of ValidateRSSUrl: the first candidate stays in the list after
\* its test, and is tested again
ValidateRSSUrlTestsFirstAgain(p, o) ==
    LET r == disc[p]
        c == Head(r.todo)
        skip == c.url \in failedUrlCache
        valid == ~skip /\ o.ok /\ o.doc # NoDoc /\ IsValidRSS(o.doc)
        marks == IF skip THEN <<>>
                 ELSE (IF ~o.ok /\ Has406(o.error) THEN <<c.url>> ELSE <<>>)
                          \o (IF valid THEN <<>> ELSE <<c.url>>)
        tested == [strategy |-> strategies[r.strat], sel |-> c.sel,
                   pos |-> c.pos, url |-> c.url, fetched |-> ~skip,
                   valid |-> valid]
        r2 == [r EXCEPT !.trail = Append(@, tested),
                        !.todo = IF r.trail = <<>> THEN @ ELSE Tail(@)]
    IN /\ r.pc = "probe"
       /\ IF valid
          THEN /\ rssCache' = [rssCache EXCEPT ![r.url] =
                      [rssUrl |-> c.url, age |-> 0, body |-> o.doc]]
               /\ found' = [found EXCEPT ![p] = Found(r2, "url",
                      [rssUrl |-> c.url, age |-> 0, body |-> o.doc], FALSE)]
               /\ disc' = [disc EXCEPT ![p] = IdleDisc]
               /\ UNCHANGED <<failedUrlCache, failedTimers>>
          ELSE /\ UNCHANGED rssCache
               /\ IF r2.todo # <<>>
                  THEN /\ markAsFailed(marks)
                       /\ disc' = [disc EXCEPT ![p] = r2]
                       /\ UNCHANGED found
                  ELSE RunStrategies(p, r2, r.strat + 1, marks)
       /\ hourFeed' = IF valid /\ hourFeed[r.url].left = 0
                       THEN [hourFeed EXCEPT ![r.url] =
                                [rssUrl |-> c.url, left |-> RssTtlMs]]
                       ELSE hourFeed
       /\ UNCHANGED <<findsLeft, recent4xx>>

(***************************************************************************)
(* validateRSSUrl(candidate) for the next candidate of the strategy, with  *)
(* the outcome o of its fetch.  A recently failed candidate is refused     *)
(* without a fetch.  A valid one ends the strategy and findRSSFeed: it is  *)
(* cached for the URL and returned.  An invalid one is marked as failed    *)
(* and the next candidate, or the next strategy, follows.                  *)
(***************************************************************************)
ValidateRSSUrl(p, o) ==
    LET r == disc[p]
        c == Head(r.todo)
        skip == c.url \in failedUrlCache
        valid == ~skip /\ o.ok /\ o.doc # NoDoc /\ IsValidRSS(o.doc)
        marks == IF skip THEN <<>>
                 ELSE (IF ~o.ok /\ Has406(o.error) THEN <<c.url>> ELSE <<>>)
                          \o (IF valid THEN <<>> ELSE <<c.url>>)
        tested == [strategy |-> strategies[r.strat], sel |-> c.sel,
                   pos |-> c.pos, url |-> c.url, fetched |-> ~skip,
                   valid |-> valid]
        r2 == [r EXCEPT !.trail = Append(@, tested), !.todo = Tail(@)]
    IN /\ r.pc = "probe"
       /\ IF valid
          THEN /\ rssCache' = [rssCache EXCEPT ![r.url] =
                      [rssUrl |-> c.url, age |-> 0, body |-> o.doc]]
               /\ found' = [found EXCEPT ![p] = Found(r2, "url",
                      [rssUrl |-> c.url, age |-> 0, body |-> o.doc], FALSE)]
               /\ disc' = [disc EXCEPT ![p] = IdleDisc]
               /\ UNCHANGED <<failedUrlCache, failedTimers>>
          ELSE /\ UNCHANGED rssCache
               /\ IF r2.todo # <<>>
                  THEN /\ markAsFailed(marks)
                       /\ disc' = [disc EXCEPT ![p] = r2]
                       /\ UNCHANGED found
                  ELSE RunStrategies(p, r2, r.strat + 1, marks)
       /\ hourFeed' = IF valid /\ hourFeed[r.url].left = 0
                       THEN [hourFeed EXCEPT ![r.url] =
                                [rssUrl |-> c.url, left |-> RssTtlMs]]
                       ELSE hourFeed
       /\ UNCHANGED <<findsLeft, recent4xx>>

\* validateRSSUrl of a candidate that is not marked as failed: its fetch ends
\* with outcome o
Probe(p, o) ==
    /\ disc[p].pc = "probe"
    /\ Head(disc[p].todo).url \notin failedUrlCache
    /\ ValidateRSSUrl(p, o)
    /\ UNCHANGED <<allHttpVars, feedVars, otherVars>>

\* validateRSSUrl of a candidate that is marked as failed: false, no fetch
SkipFailed(p) ==
    /\ disc[p].pc = "probe"
    /\ Head(disc[p].todo).url \in failedUrlCache
    /\ ValidateRSSUrl(p, Fetched(NoDoc))
    /\ UNCHANGED <<allHttpVars, feedVars, otherVars>>

\* the timers of markAsFailed that are due fire, one after the other in the
\* same turn of the event loop
FailedTimersFire ==
    LET Due(t) == t.left = 0
        Pending(t) == t.left > 0
        due == SelectSeq(failedTimers, Due)
    IN /\ due # <<>>
       /\ failedUrlCache' = failedUrlCache \ {due[i].url : i \in DOMAIN due}
       /\ failedTimers' = SelectSeq(failedTimers, Pending)
       /\ UNCHANGED <<rssCache, disc, found, findsLeft, recent4xx, hourFeed>>
       /\ UNCHANGED <<allHttpVars, feedVars, otherVars>>

\* resetStats() between two requests: both caches are cleared; the timers of
\* markAsFailed stay armed
resetStats ==
    /\ \A p \in Procs : disc[p].pc = "idle"
    /\ rssCache' = [n \in NormSites |-> NoEntry]
    /\ failedUrlCache' = {}
    /\ UNCHANGED <<failedTimers, disc, found, findsLeft, recent4xx, hourFeed>>
    /\ UNCHANGED <<allHttpVars, feedVars, otherVars>>

\* time passes for the detector: d ms, not beyond the next timer
DiscTimeLeft == {failedTimers[i].left : i \in DOMAIN failedTimers}

DiscTimePasses(d) ==
    /\ \A t \in DiscTimeLeft : t > 0
    /\ rssCache' = [n \in NormSites |->
           IF rssCache[n] = NoEntry THEN NoEntry
           ELSE [rssCache[n] EXCEPT !.age = Min(@ + d, RssTtlMs)]]
    /\ failedTimers' = [i \in DOMAIN failedTimers |->
                           [failedTimers[i] EXCEPT !.left = @ - d]]
    /\ recent4xx' = {}
    /\ hourFeed' = [n \in NormSites |->
           [hourFeed[n] EXCEPT !.left = Max(@ - d, 0)]]
    /\ UNCHANGED <<failedUrlCache, disc, found, findsLeft>>

\* up to an hour passes; a findRSSFeed call is over within seconds (every
\* fetch has a 5 s timeout) and takes no time on this scale
TickDisc ==
    /\ \A p \in Procs : disc[p].pc = "idle"
    /\ DiscTimePasses(IF DiscTimeLeft = {} THEN DiscStepMs
                      ELSE Min(DiscStepMs, SetMin(DiscTimeLeft)))
    /\ UNCHANGED <<allHttpVars, feedVars, otherVars>>

DiscStep(Ps, Os) ==
    \/ \E p \in Ps, o \in Os : PageFetched(p, o)
    \/ \E p \in Ps, o \in Os : Probe(p, o)
    \/ \E p \in Ps : SkipFailed(p)
    \/ FailedTimersFire

(***************************************************************************)
(* FeedService: constants and pure helpers.                                *)
(***************************************************************************)
cacheDuration == 3600                 \* config.app.cacheDuration, in seconds
maxArticlesPerFeed == 20              \* config.app.maxArticlesPerFeed
maxCacheSize == 100                   \* cacheResult: feedCache.size > 100
CacheMs == cacheDuration * 1000
FeedStepMs == CacheMs \div 2          \* the clock step while feeds are served

\* the pages feeds are asked for
FeedSites == {[Url("blog.example", <<"news", "tech">>) EXCEPT !.slash = TRUE]}

\* what the fetch of a feed or of a page gives the scraper
FeedOutcomes ==
    FetchOutcomes \cup
        { Fetched(Doc(500, {"<rss"}, <<>>, 0, FALSE)),   \* XML that does not parse
          Fetched(Doc(500, {"<rss"}, <<>>, 0, TRUE)) }   \* a feed without items

\* the options of a request that the model tells apart
Options == {[title |-> "", limit |-> 0], [title |-> "", limit |-> 1]}

\* validateAndNormalizeUrl: urlObj.toString() without the fragment; a trailing
\* slash is dropped from every path but the root, which is written "/"
validateAndNormalizeUrl(u) == [u EXCEPT !.slash = (u.path = <<>>)]

\* hashOptions: the digest of {title, description, limit}
hashOptions(o) == [title |-> o.title, limit |-> o.limit]

\* getCacheKey: the digests of the URL and of the options
getCacheKey(u, o) == [url |-> u, options |-> hashOptions(o)]

Keys == {getCacheKey(validateAndNormalizeUrl(s), o) : s \in FeedSites, o \in Options}

\* scraperService.fetchRSSContent: the test on the fetched body
IsRSSContent(doc) ==
    /\ doc.len >= 100
    /\ doc.marks \cap {"<rss", "<feed"} # {}

\* applyFilters: options.limit cuts the list
applyFilters(n, limit) == IF limit > 0 THEN Min(n, limit) ELSE n

\* ContentParserService.sortAndLimitArticles: slice(0, maxArticlesPerFeed)
sortAndLimitArticles(n) == Min(n, maxArticlesPerFeed)

\* the bytes of a response: an origin feed as it is, an origin feed
\* processed for the options, or a feed built from articles; stamp is the
\* time written into the bytes (lastBuildDate, pubDate)
NoBytes == [src |-> "none", doc |-> NoDoc, items |-> 0, meta |-> FALSE,
            title |-> "", stamp |-> 0]

\* processExistingRSS
processExistingRSS(doc, o, t) ==
    IF o.title = "" /\ o.limit = 0
    THEN [NoBytes EXCEPT !.src = "origin", !.doc = doc, !.items = doc.items]
    ELSE [NoBytes EXCEPT !.src = "processed", !.doc = doc,
                         !.items = applyFilters(doc.items, o.limit),
                         !.title = o.title, !.stamp = t]

\* createRSSFeed
createRSSFeed(n, meta, o, t) ==
    [NoBytes EXCEPT !.src = "built", !.items = n, !.meta = meta,
                    !.title = o.title, !.stamp = t]

(***************************************************************************)
(* FeedService: state after construction.  A request in progress is a      *)
(* record; a finished one leaves what generateFeed returned or threw.      *)
(***************************************************************************)
NoCached == [bytes |-> NoBytes, age |-> 0]

IdleFeed ==
    [pc |-> "idle", url |-> NoUrl, options |-> [title |-> "", limit |-> 0],
     articles |-> 0]

NoServed ==
    [kind |-> "none", bytes |-> NoBytes, error |-> "", cause |-> "",
     hit |-> FALSE, key |-> getCacheKey(NoUrl, [title |-> "", limit |-> 0])]

KeyOf(r) == getCacheKey(r.url, r.options)

Served(r, bytes, hit) ==
    [kind |-> "ok", bytes |-> bytes, error |-> "", cause |-> "", hit |-> hit,
     key |-> KeyOf(r)]

\* generateFeed throws: error is the class of what the client gets, cause
\* the step that failed
FeedThrows(r, error, cause) ==
    [kind |-> "error", bytes |-> NoBytes, error |-> error, cause |-> cause,
     hit |-> FALSE, key |-> KeyOf(r)]

NoHistory == [last |-> NoBytes, age |-> 0, prev |-> NoBytes, within |-> FALSE]

InitFeed ==
    /\ feedCache = [k \in Keys |-> NoCached]
    /\ feed = [p \in Procs |-> IdleFeed]
    /\ served = [p \in Procs |-> NoServed]
    /\ feedsLeft = MaxFeeds
    /\ era = 0
    /\ history = [k \in Keys |-> NoHistory]

\* isCacheValid
isCacheValid(k) == feedCache[k] # NoCached /\ feedCache[k].age < CacheMs

\* cleanupOldCache: of the entries of cache c, drop the oldest fifth
cleanupOldCache(c) ==
    LET held == {k \in Keys : c[k] # NoCached}
        removeCount == (Cardinality(held) * 2) \div 10
        gone == CHOOSE R \in SUBSET held :
                    /\ Cardinality(R) = removeCount
                    /\ \A a \in R, b \in held \ R : c[a].age >= c[b].age
    IN [k \in Keys |-> IF k \in gone THEN NoCached ELSE c[k]]

\* cacheResult(cacheKey, feedXml)
cacheResult(k, bytes) ==
    LET c == [feedCache EXCEPT ![k] = [bytes |-> bytes, age |-> 0]]
    IN feedCache' = IF Cardinality({j \in Keys : c[j] # NoCached}) > maxCacheSize
                    THEN cleanupOldCache(c) ELSE c

\* a response with these bytes is returned for key k: history keeps it, the
\* one before it, and whether the one before was less than cacheDuration ago
NoteServed(k, bytes) ==
    history' = [history EXCEPT ![k] =
        [last |-> bytes, age |-> 0, prev |-> @.last,
         within |-> @.last # NoBytes /\ @.age < CacheMs]]

\* generateFeed returns bytes it made: cache them, return them
Finish(p, r, bytes) ==
    /\ cacheResult(KeyOf(r), bytes)
    /\ NoteServed(KeyOf(r), bytes)
    /\ feed' = [feed EXCEPT ![p] = IdleFeed]
    /\ served' = [served EXCEPT ![p] = Served(r, bytes, FALSE)]

\* a mutation of Fail: the failed request drops the entry of its key
FailDropsEntry(p, r, error, cause) ==
    /\ feed' = [feed EXCEPT ![p] = IdleFeed]
    /\ served' = [served EXCEPT ![p] = FeedThrows(r, error, cause)]
    /\ feedCache' = [feedCache EXCEPT ![KeyOf(r)] = NoCached]
    /\ UNCHANGED history

\* generateFeed throws
Fail(p, r, error, cause) ==
    /\ feed' = [feed EXCEPT ![p] = IdleFeed]
    /\ served' = [served EXCEPT ![p] = FeedThrows(r, error, cause)]
    /\ UNCHANGED <<feedCache, history>>

(***************************************************************************)
(* generateFeed(websiteUrl, options), up to its first await.  A valid      *)
(* cache entry is returned.  Else tryExistingRSSFeed starts: it asks       *)
(* scraperService.findExistingRSSFeed, that is findRSSFeed, for a feed     *)
(* URL.  Nothing records that a generation for the key is under way.       *)
(***************************************************************************)
CallGenerateFeed(p, site, o) ==
    LET r == [IdleFeed EXCEPT !.url = validateAndNormalizeUrl(site),
                              !.options = o]
        k == KeyOf(r)
    IN /\ feed[p].pc = "idle"
       /\ disc[p].pc = "idle"
       /\ feedsLeft > 0
       /\ feedsLeft' = feedsLeft - 1
       /\ IF isCacheValid(k)
          THEN /\ served' = [served EXCEPT ![p] = Served(r, feedCache[k].bytes, TRUE)]
               /\ NoteServed(k, feedCache[k].bytes)
               /\ UNCHANGED <<feed, feedCache, discVars>>
          ELSE /\ feed' = [feed EXCEPT ![p] = [r EXCEPT !.pc = "try.find"]]
               /\ served' = [served EXCEPT ![p] = NoServed]
               /\ BeginFind(p, r.url)
               /\ UNCHANGED <<feedCache, history, findsLeft>>
       /\ UNCHANGED era
       /\ UNCHANGED <<allHttpVars, otherVars>>

\* scraperService.extractArticles(url) starts: it asks findRSSFeed again
BeginExtract(p, r) ==
    /\ feed' = [feed EXCEPT ![p] = [r EXCEPT !.pc = "ext.find"]]
    /\ BeginFind(p, r.url)
    /\ UNCHANGED <<feedCache, served, history, findsLeft>>

\* tryExistingRSSFeed: findExistingRSSFeed has returned.  A feed URL: fetch
\* its content.  None: tryExistingRSSFeed returns null and extraction starts.
TryFound(p) ==
    /\ feed[p].pc = "try.find"
    /\ disc[p].pc = "idle"
    /\ IF found[p].kind = "url"
       THEN /\ feed' = [feed EXCEPT ![p] = [@ EXCEPT !.pc = "try.fetch"]]
            /\ UNCHANGED <<feedCache, served, history, discVars>>
       ELSE BeginExtract(p, feed[p])
    /\ UNCHANGED <<feedsLeft, era>>
    /\ UNCHANGED <<allHttpVars, otherVars>>

\* tryExistingRSSFeed: fetchRSSContent(rssUrl) ends with outcome o.  Content
\* that passes is processed for the options, cached and returned.  Any
\* failure is caught: tryExistingRSSFeed returns null and extraction starts.
TryFetched(p, o) ==
    /\ feed[p].pc = "try.fetch"
    /\ IF o.ok /\ IsRSSContent(o.doc)
       THEN /\ Finish(p, feed[p], processExistingRSS(o.doc, feed[p].options, era))
            /\ UNCHANGED discVars
       ELSE BeginExtract(p, feed[p])
    /\ UNCHANGED <<feedsLeft, era>>
    /\ UNCHANGED <<allHttpVars, otherVars>>

\* the limit extraction works with: options.limit || maxArticlesPerFeed
ExtractionLimit(o) == IF o.limit > 0 THEN o.limit ELSE maxArticlesPerFeed

\* generateFeed has its articles: none is a NoArticlesError, else
\* createRSSFeed starts and waits for getSiteMetadata
GotArticles(p, n) ==
    IF n = 0
    THEN Fail(p, feed[p], "NoArticlesError", "no articles")
    ELSE /\ feed' = [feed EXCEPT ![p] = [@ EXCEPT !.pc = "build", !.articles = n]]
         /\ UNCHANGED <<feedCache, served, history>>

\* scraperService.extractArticles: findExistingRSSFeed has returned.  A feed
\* URL: fetch and parse it.  None: fetch the page itself.
ExtFound(p) ==
    /\ feed[p].pc = "ext.find"
    /\ disc[p].pc = "idle"
    /\ feed' = [feed EXCEPT ![p] =
           [@ EXCEPT !.pc = IF found[p].kind = "url" THEN "ext.fetch" ELSE "ext.html"]]
    /\ UNCHANGED <<feedCache, served, history, discVars, feedsLeft, era>>
    /\ UNCHANGED <<allHttpVars, otherVars>>

\* scraperService.extractArticles: fetchRSSContent(rssUrl) ends with outcome
\* o.  A failure of the fetch, of the test on the content or of parseRSSFeed
\* is thrown on; generateFeed wraps it into a FeedGenerationError.
ExtFetched(p, o) ==
    /\ feed[p].pc = "ext.fetch"
    /\ IF ~(o.ok /\ IsRSSContent(o.doc))
       THEN Fail(p, feed[p], "FeedGenerationError", "feed fetch")
       ELSE IF ~o.doc.parses
       THEN Fail(p, feed[p], "FeedGenerationError", "feed parse")
       ELSE GotArticles(p, applyFilters(o.doc.items, ExtractionLimit(feed[p].options)))
    /\ UNCHANGED <<discVars, feedsLeft, era>>
    /\ UNCHANGED <<allHttpVars, otherVars>>

\* scraperService.extractArticles: fetchHtml(url) of the page ends with
\* outcome o; parseArticles finds the articles of the page.  When there is
\* no valid one the parser throws NoArticlesError, which
\* ScraperService.parseArticles wraps into a ScrapingError and generateFeed
\* into a FeedGenerationError.
HtmlFetched(p, o) ==
    /\ feed[p].pc = "ext.html"
    /\ IF ~o.ok \/ o.doc = NoDoc
       THEN Fail(p, feed[p], "FeedGenerationError", "page fetch")
       ELSE IF o.doc.items = 0
       THEN Fail(p, feed[p], "FeedGenerationError", "no articles")
       ELSE GotArticles(p, applyFilters(sortAndLimitArticles(o.doc.items),
                                        ExtractionLimit(feed[p].options)))
    /\ UNCHANGED <<discVars, feedsLeft, era>>
    /\ UNCHANGED <<allHttpVars, otherVars>>

\* createRSSFeed: getSiteMetadata has returned (meta) or thrown; the feed is
\* built with the time of now in it, cached and returned
MetadataDone(p, meta) ==
    /\ feed[p].pc = "build"
    /\ Finish(p, feed[p],
              createRSSFeed(feed[p].articles, meta, feed[p].options, era))
    /\ UNCHANGED <<discVars, feedsLeft, era>>
    /\ UNCHANGED <<allHttpVars, otherVars>>

\* clearCache(): every entry goes
ClearCache ==
    /\ feedCache' = [k \in Keys |-> NoCached]
    /\ history' = [k \in Keys |-> NoHistory]
    /\ UNCHANGED <<feed, served, feedsLeft, era, discVars>>
    /\ UNCHANGED <<allHttpVars, otherVars>>

\* clearCache(url): the entries of the URL go, whatever their options
ClearCacheOf(site) ==
    LET u == validateAndNormalizeUrl(site) IN
    /\ feedCache' = [k \in Keys |-> IF k.url = u THEN NoCached ELSE feedCache[k]]
    /\ history' = [k \in Keys |-> IF k.url = u THEN NoHistory ELSE history[k]]
    /\ UNCHANGED <<feed, served, feedsLeft, era, discVars>>
    /\ UNCHANGED <<allHttpVars, otherVars>>

\* cleanupExpiredCache, run every 5 minutes: entries older than cacheDuration go
CleanupExpiredCache ==
    /\ feedCache' = [k \in Keys |->
           IF feedCache[k] # NoCached /\ feedCache[k].age > CacheMs
           THEN NoCached ELSE feedCache[k]]
    /\ UNCHANGED <<feed, served, feedsLeft, era, history, discVars>>
    /\ UNCHANGED <<allHttpVars, otherVars>>

\* time passes for the content cache
FeedTimePasses(d) ==
    /\ feedCache' = [k \in Keys |->
           IF feedCache[k] = NoCached THEN NoCached
           ELSE [feedCache[k] EXCEPT !.age = Min(@ + d, CacheMs + 1)]]
    /\ history' = [k \in Keys |->
           IF history[k] = NoHistory THEN NoHistory
           ELSE [history[k] EXCEPT !.age = Min(@ + d, CacheMs)]]
    /\ UNCHANGED <<feed, served, feedsLeft>>

\* up to half an hour passes; a request is over within seconds and takes no
\* time on this scale
TickFeed ==
    /\ \A p \in Procs : feed[p].pc = "idle" /\ disc[p].pc = "idle"
    /\ era < MaxEras
    /\ era' = era + 1
    /\ LET d == IF DiscTimeLeft = {} THEN FeedStepMs
                ELSE Min(FeedStepMs, SetMin(DiscTimeLeft))
       IN DiscTimePasses(d) /\ FeedTimePasses(d)
    /\ UNCHANGED <<allHttpVars, otherVars>>

FeedStep(Ps) ==
    \/ \E p \in Ps, s \in FeedSites, o \in Options : CallGenerateFeed(p, s, o)
    \/ \E p \in Ps : TryFound(p)
    \/ \E p \in Ps, o \in FeedOutcomes : TryFetched(p, o)
    \/ \E p \in Ps : ExtFound(p)
    \/ \E p \in Ps, o \in FeedOutcomes : ExtFetched(p, o)
    \/ \E p \in Ps, o \in FeedOutcomes : HtmlFetched(p, o)
    \/ \E p \in Ps, meta \in BOOLEAN : MetadataDone(p, meta)

(***************************************************************************)
(* The request path of the routes that take a URL: the router mounts       *)
(* validateRequest of the middleware on the GET routes and nothing on POST *)
(* /validate; the controller hands the URL to the services, which fetch.   *)
(* A hostname is the sequence of the characters of urlObj.hostname, in     *)
(* lower case, an IPv6 literal in its brackets.                            *)
(***************************************************************************)
\* the hosts of the security filter's list
PrivateHosts ==
    { <<"l", "o", "c", "a", "l", "h", "o", "s", "t">>,
      <<"0", ".", "0", ".", "0", ".", "0">>,
      <<"[", ":", ":", "1", "]">>,
      <<"1", "0", ".", "0", ".", "0", ".", "5">>,
      <<"1", "7", "2", ".", "1", "6", ".", "0", ".", "5">>,
      <<"1", "9", "2", ".", "1", "6", "8", ".", "0", ".", "5">>,
      <<"[", "f", "e", "8", "0", ":", ":", "5", "]">>,
      <<"[", "f", "e", "b", "f", ":", ":", "5", "]">>,
      <<"[", "f", "c", "0", "0", ":", ":", "5", "]">>,
      <<"[", "f", "d", "0", "0", ":", ":", "5", "]">> }
Hosts == PrivateHosts \cup {<<"a", ".", "i", "o">>}

DefaultPort == 0                      \* urlObj.port is '' for the default port
blockedPorts ==
    {22, 23, 25, 53, 110, 143, 993, 995, 1433, 3306, 5432, 6379, 27017}
Ports == {DefaultPort, 22, 6379, 8080}

Protocols == {"https:", "ftp:"}
Routes == {"/feed", "/metadata", "/preview", "/validate"}

Digits == {"0", "1", "2", "3", "4", "5", "6", "7", "8", "9"}
HexDigits == Digits \cup {"a", "b", "c", "d", "e", "f"}

\* String.prototype.includes
Includes(s, t) ==
    \E i \in 1..(Len(s) - Len(t) + 1) : SubSeq(s, i, i + Len(t) - 1) = t

\* a regular expression anchored with ^ on a literal
StartsWith(s, t) == Len(s) >= Len(t) /\ SubSeq(s, 1, Len(t)) = t

blockedPatterns ==
    { <<"l", "o", "c", "a", "l", "h", "o", "s", "t">>,
      <<"1", "2", "7", ".", "0", ".", "0", ".", "1">>,
      <<"0", ".", "0", ".", "0", ".", "0">>,
      <<":", ":", "1">>,
      <<"l", "o", "c", "a", "l">> }

\* ValidationService.isPrivateIP
isPrivateIP(h) ==
    \/ StartsWith(h, <<"1", "0", ".">>)
    \/ /\ StartsWith(h, <<"1", "7", "2", ".">>)
       /\ Len(h) >= 7
       /\ \/ h[5] = "1" /\ h[6] \in {"6", "7", "8", "9"}
          \/ h[5] = "2" /\ h[6] \in Digits
          \/ h[5] = "3" /\ h[6] \in {"0", "1"}
       /\ h[7] = "."
    \/ StartsWith(h, <<"1", "9", "2", ".", "1", "6", "8", ".">>)
    \/ h = <<":", ":", "1">>
    \/ /\ Len(h) >= 5
       /\ h[1] = "f" /\ h[2] \in {"c", "d"}
       /\ h[3] \in HexDigits /\ h[4] \in HexDigits /\ h[5] = ":"
    \/ StartsWith(h, <<"f", "e", "8", "0", ":">>)

\* ValidationService.isSuspiciousPort
isSuspiciousPort(port) == port \in blockedPorts

\* ValidationService.validateUrl(url).isValid
validateUrl(protocol, h, port) ==
    /\ protocol \in {"http:", "https:"}
    /\ \A t \in blockedPatterns : ~Includes(h, t)
    /\ ~isPrivateIP(h)
    /\ ~(port # DefaultPort /\ isSuspiciousPort(port))

\* the two FeedController sources of the repository: one reads req.query,
\* the other req.validatedQuery and req.validatedBody, which only the
\* middlewares of ValidationService set
Controllers == {"query", "validatedQuery"}

NoRequest ==
    [pc |-> "idle", route |-> "", protocol |-> "", host |-> <<>>,
     port |-> DefaultPort, status |-> 0, outbound |-> FALSE]

InitWeb ==
    /\ controller = "none"
    /\ web = NoRequest

\* require('../controllers/feedController') when the router is loaded
LoadController(c) ==
    /\ controller = "none"
    /\ controller' = c
    /\ UNCHANGED <<web, serviceVars, pureVars>>

\* a request for route with url = protocol//host:port/ arrives
Arrive(route, protocol, h, port) ==
    /\ controller # "none"
    /\ web.pc = "idle"
    /\ web' = [NoRequest EXCEPT
           !.pc = IF route = "/validate" THEN "controller" ELSE "middleware",
           !.route = route, !.protocol = protocol, !.host = h, !.port = port]
    /\ UNCHANGED <<controller, serviceVars, pureVars>>

\* validateRequest of the middleware: new URL(url) and the protocol
ValidateRequest ==
    /\ web.pc = "middleware"
    /\ web' = IF web.protocol \in {"http:", "https:"}
              THEN [web EXCEPT !.pc = "controller"]
              ELSE [web EXCEPT !.pc = "idle", !.status = 400]
    /\ UNCHANGED <<controller, serviceVars, pureVars>>

\* the controller's handler up to its call of a service.  Reading a
\* property of req.validatedQuery or req.validatedBody, which are undefined,
\* throws TypeError; so does feedService.isValidUrl, which FeedService does
\* not have.  The error handler answers 500.
ControllerReads ==
    /\ web.pc = "controller"
    /\ web' = IF controller = "validatedQuery" \/ web.route = "/validate"
              THEN [web EXCEPT !.pc = "idle", !.status = 500]
              ELSE [web EXCEPT !.pc = "service"]
    /\ UNCHANGED <<controller, serviceVars, pureVars>>

\* the service validates the URL (validateAndNormalizeUrl of FeedService,
\* validateUrl of ScraperService: new URL(url) and the protocol) and sends
\* its first request to the host
ServiceFetches ==
    /\ web.pc = "service"
    /\ web' = IF web.protocol \in {"http:", "https:"}
              THEN [web EXCEPT !.pc = "respond", !.outbound = TRUE]
              ELSE [web EXCEPT !.pc = "idle", !.status = 400]
    /\ UNCHANGED <<controller, serviceVars, pureVars>>

\* the answer of the service goes to the client
Respond(status) ==
    /\ web.pc = "respond"
    /\ web' = [web EXCEPT !.pc = "idle", !.status = status]
    /\ UNCHANGED <<controller, serviceVars, pureVars>>

WebStep ==
    \/ \E c \in Controllers : LoadController(c)
    \/ \E route \in Routes, protocol \in Protocols, h \in Hosts, port \in Ports :
           Arrive(route, protocol, h, port)
    \/ ValidateRequest
    \/ ControllerReads
    \/ ServiceFetches
    \/ \E status \in {200, 404, 500} : Respond(status)

(***************************************************************************)
(* URL normalization on the text of the URL.  The origin is left alone by  *)
(* all three functions, so a URL is its pathname (a sequence of            *)
(* characters), and whether it has a query and a fragment.                 *)
(***************************************************************************)
MaxPathLen == 5
PathChars == {"/", "a"}

RECURSIVE PathsOfLen(_)
PathsOfLen(n) ==
    IF n = 1 THEN {<<"/">>}
    ELSE {Append(q, c) : q \in PathsOfLen(n - 1), c \in PathChars}

\* the pathnames of the accepted URLs: they start with a slash
Paths == UNION {PathsOfLen(n) : n \in 1..MaxPathLen}

TextUrl(path, search, hash) == [path |-> path, search |-> search, hash |-> hash]
TextUrls == {TextUrl(q, s, h) : q \in Paths, s \in BOOLEAN, h \in BOOLEAN}

\* new URL(text).pathname: the pathname of a URL without a path is "/"
Pathname(x) == IF x.path = <<>> THEN <<"/">> ELSE x.path

\* str.replace(/\/$/, ''): one trailing slash is removed
DropTrailingSlash(q) ==
    IF Len(q) > 0 /\ q[Len(q)] = "/" THEN SubSeq(q, 1, Len(q) - 1) ELSE q

\* FeedService.validateAndNormalizeUrl, the version that keeps the query
validateAndNormalizeUrlText(x) ==
    LET q == Pathname(x)
    IN  TextUrl(IF q # <<"/">> /\ q[Len(q)] = "/"
                THEN SubSeq(q, 1, Len(q) - 1) ELSE q,
                x.search, FALSE)

\* FeedService.validateAndNormalizeUrl, the version that drops the query
validateAndNormalizeUrlNoQuery(x) ==
    LET q == DropTrailingSlash(Pathname(x))
    IN  TextUrl(IF q = <<>> THEN <<"/">> ELSE q, FALSE, FALSE)

\* AdvancedRSSDetector.normalizeUrl: origin and pathname, less one slash
normalizeUrlText(x) == TextUrl(DropTrailingSlash(Pathname(x)), FALSE, FALSE)

Normalizers == {"validateAndNormalizeUrl", "validateAndNormalizeUrl.old", "normalizeUrl"}

ApplyNormalizer(fn, x) ==
    CASE fn = "validateAndNormalizeUrl" -> validateAndNormalizeUrlText(x)
      [] fn = "validateAndNormalizeUrl.old" -> validateAndNormalizeUrlNoQuery(x)
      [] fn = "normalizeUrl" -> normalizeUrlText(x)

NoNorm == [fn |-> "", input |-> TextUrl(<<>>, FALSE, FALSE), steps |-> 0,
           prev |-> TextUrl(<<>>, FALSE, FALSE),
           cur |-> TextUrl(<<>>, FALSE, FALSE)]

InitNorm == norm = NoNorm

\* an accepted URL is handed to one of the functions
TakeUrl(fn, x) ==
    /\ norm.fn = ""
    /\ norm' = [fn |-> fn, input |-> x, steps |-> 0, prev |-> x, cur |-> x]
    /\ UNCHANGED <<serviceVars, webVars, exceptNorm>>

\* the function is applied to its last result
Normalize ==
    /\ norm.fn # ""
    /\ norm.steps < 2
    /\ norm' = [norm EXCEPT !.steps = @ + 1, !.prev = norm.cur,
                            !.cur = ApplyNormalizer(norm.fn, norm.cur)]
    /\ UNCHANGED <<serviceVars, webVars, exceptNorm>>

(***************************************************************************)
(* ContentParserService.parseArticles(html, baseUrl).  A text is known by  *)
(* its length, the white space around it (pad) and the white space inside  *)
(* it beyond one blank between words (runs).  An article element is what   *)
(* the selectors of the site rules find in it.                             *)
(***************************************************************************)
Text(n, pad, runs) == [len |-> n, pad |-> pad, runs |-> runs]
NoText == Text(0, 0, 0)

\* String.prototype.trim
trim(t) == Text(t.len - t.pad, 0, t.runs)

\* helpers.cleanText: runs of white space become one blank, then trim
cleanText(t) == Text(t.len - t.pad - t.runs, 0, 0)

\* helpers.truncateText(text, maxLength): the cut text and '...'
truncateText(t, maxLength) == IF t.len <= maxLength THEN t ELSE Text(maxLength + 3, 0, 0)

BaseHref == "https://h/"
Hrefs == {"", "/a", "https://h/a", "/b"}

\* helpers.makeAbsoluteUrl(relativeUrl, baseUrl) for baseUrl https://h/
makeAbsoluteHref(href) ==
    CASE href = "" -> ""
      [] href = "/a" -> "https://h/a"
      [] href = "/b" -> "https://h/b"
      [] OTHER -> href

Elements ==
    [title : {NoText, Text(9, 0, 0), Text(11, 0, 0)},
     titleAttr : {NoText, Text(12, 1, 0)},
     linkText : {NoText, Text(14, 1, 4)},
     href : Hrefs,
     desc : {NoText, Text(40, 0, 0)},
     text : {Text(60, 2, 3)},
     date : {1, 2}]

\* extractTitle
extractTitle(e) ==
    LET text == cleanText(e.title)
        title == IF text.len = 0 /\ e.titleAttr.len > 0
                 THEN cleanText(e.titleAttr) ELSE text
        fallbackTitle == trim(e.linkText)
    IN IF title.len > 0 /\ title.len > 10 THEN title
       ELSE IF fallbackTitle.len > 10 THEN fallbackTitle
       ELSE Text(16, 0, 0)                      \* 'Untitled Article'

\* extractUrl
extractUrl(e) == IF e.href # "" THEN makeAbsoluteHref(e.href) ELSE BaseHref

\* extractDescription
extractDescription(e) ==
    LET desc == cleanText(e.desc)
        fullText == cleanText(e.text)
    IN IF desc.len > 0 /\ desc.len > 30 THEN desc
       ELSE IF fullText.len > 100 THEN Text(203, 0, 0) ELSE fullText

\* extractArticleData
extractArticleData(e) ==
    [title |-> cleanText(extractTitle(e)),
     url |-> extractUrl(e),
     description |-> truncateText(cleanText(extractDescription(e)), 300),
     publishedDate |-> e.date]

\* a mutant of validateArticle: the title only has to be there
validateArticleAnyTitle(article) ==
    /\ article.title.len > 0
    /\ article.url # ""
    /\ article.description.len > 20

\* validateArticle
validateArticle(article) ==
    /\ article.title.len > 0
    /\ article.title.len > 10
    /\ article.url # ""
    /\ article.description.len > 0
    /\ article.description.len > 20

\* Array.prototype.sort by publishedDate, newest first; the sort is stable
RECURSIVE SortByDate(_)
SortByDate(s) ==
    IF Len(s) <= 1 THEN s
    ELSE LET rest == SortByDate(SubSeq(s, 1, Len(s) - 1))
             a == s[Len(s)]
             k == Cardinality({i \in DOMAIN rest : rest[i].publishedDate >= a.publishedDate})
         IN SubSeq(rest, 1, k) \o <<a>> \o SubSeq(rest, k + 1, Len(rest))

\* sortAndLimitArticles on the list itself
sortAndLimitList(articles) ==
    LET sorted == SortByDate(articles)
    IN SubSeq(sorted, 1, Min(Len(sorted), maxArticlesPerFeed))

IdleParser ==
    [pc |-> "idle", left |-> 0, articles |-> <<>>, seenUrls |-> {},
     dropped |-> {}, out |-> <<>>, error |-> ""]

InitParser == parser = IdleParser

\* parseArticles is called on a page where findArticleElements finds n
\* elements: none is a NoArticlesError
ParseStart(n) ==
    /\ parser.pc = "idle"
    /\ parser' = IF n = 0
                 THEN [IdleParser EXCEPT !.pc = "done", !.error = "NoArticlesError"]
                 ELSE [IdleParser EXCEPT !.pc = "loop", !.left = n]
    /\ UNCHANGED <<serviceVars, webVars, exceptParser>>

\* one turn of the loop over the article elements; dropped notes why
\* elements were left out
ParseElement(e) ==
    /\ parser.pc = "loop"
    /\ parser.left > 0
    /\ LET article == extractArticleData(e)
       IN IF validateArticle(article) /\ article.url \notin parser.seenUrls
          THEN parser' = [parser EXCEPT !.left = @ - 1,
                                        !.articles = Append(@, article),
                                        !.seenUrls = @ \cup {article.url}]
          ELSE parser' = [parser EXCEPT !.left = @ - 1,
                                        !.dropped = @ \cup
                                            {IF validateArticle(article)
                                             THEN "duplicate" ELSE "invalid"}]
    /\ UNCHANGED <<serviceVars, webVars, exceptParser>>

\* after the loop: no article is a NoArticlesError, else the sorted list
ParseEnd ==
    /\ parser.pc = "loop"
    /\ parser.left = 0
    /\ parser' = IF parser.articles = <<>>
                 THEN [parser EXCEPT !.pc = "done", !.error = "NoArticlesError"]
                 ELSE [parser EXCEPT !.pc = "done",
                                     !.out = sortAndLimitList(parser.articles)]
    /\ UNCHANGED <<serviceVars, webVars, exceptParser>>

(***************************************************************************)
(* FeedService.processExistingRSS and createRSSFeed on the XML itself.  An *)
(* upstream feed is its channel elements and the list of its items; an     *)
(* element the channel does not have is Absent (a date: -1).  foreign      *)
(* stands for every other element of the feed.                             *)
(***************************************************************************)
Absent == "absent"
Generator == "RSS Feed Generator v1.0 (Enhanced)"
SelfLink == "baseUrl/feed?url=websiteUrl"
Clock == {1, 2}                        \* what new Date() may give

UpstreamFeeds ==
    [title : {"upstream title"}, description : {"upstream description"},
     lastBuildDate : {-1, 0}, generator : {Absent, "upstream"},
     atomNs : BOOLEAN, links : {<<>>}, foreign : {"upstream"},
     items : {<<>>, <<"i1">>, <<"i1", "i2">>, <<"i1", "i2", "i3">>}]

PassOptions ==
    [title : {"", "custom title"}, description : {"", "custom description"},
     limit : {0, 2, 5}]

\* a mutant of KeepItems: the last items are kept
KeepLastItems(items, limit) ==
    IF Len(items) > limit THEN SubSeq(items, Len(items) - limit + 1, Len(items))
    ELSE items

\* processExistingRSS: items.slice(options.limit).remove()
KeepItems(items, limit) ==
    IF Len(items) > limit THEN SubSeq(items, 1, limit) ELSE items

\* processExistingRSS(rssContent, rssUrl, websiteUrl, options) at time now
processExistingRSSXml(rss, o, now) ==
    IF o.title = "" /\ o.description = "" /\ o.limit = 0
    THEN rss
    ELSE [title |-> IF o.title # "" THEN o.title ELSE rss.title,
          description |->
              IF o.description # "" THEN o.description ELSE rss.description,
          items |-> IF o.limit > 0 THEN KeepItems(rss.items, o.limit) ELSE rss.items,
          lastBuildDate |-> IF rss.lastBuildDate = -1 THEN -1 ELSE now,
          generator |-> IF rss.generator = Absent THEN Absent ELSE Generator,
          atomNs |-> TRUE,
          links |-> <<SelfLink>> \o rss.links,
          foreign |-> rss.foreign]

\* the articles createRSSFeed is given: publishedDate 0 is none
ArticleLists ==
    LET A == [url : {"a"}, guid : {""}, publishedDate : {0, 1}]
    IN {<<>>} \cup {<<a>> : a \in A} \cup {<<a, b>> : a \in A, b \in A}

\* createFeedItem(article, domain, index) at time now
createFeedItem(article, index, now) ==
    [url |-> article.url,
     guid |-> IF article.guid # "" THEN article.guid ELSE <<article.url, index>>,
     date |-> IF article.publishedDate # 0 THEN article.publishedDate ELSE now]

\* createRSSFeed(websiteUrl, articles, options) at time now, getSiteMetadata
\* having given the title metaTitle
createRSSFeedXml(articles, o, metaTitle, now) ==
    [title |-> IF o.title # "" THEN o.title
               ELSE IF metaTitle # "" THEN metaTitle ELSE "RSS Feed for domain",
     pubDate |-> now,
     lastBuildDate |-> now,
     generator |-> Generator,
     links |-> <<SelfLink>>,
     items |-> [i \in DOMAIN articles |-> createFeedItem(articles[i], i - 1, now)]]

NoCall == [fn |-> "", args |-> <<>>, now |-> 0, out |-> <<>>]
InitAssembler == assembler = [last |-> NoCall, prev |-> NoCall]

\* processExistingRSS is called
CallProcessExistingRSS(rss, o, now) ==
    /\ assembler' =
           [last |-> [fn |-> "processExistingRSS", args |-> <<rss, o>>, now |-> now,
                      out |-> processExistingRSSXml(rss, o, now)],
            prev |-> NoCall]
    /\ UNCHANGED <<serviceVars, webVars, exceptAssembler>>

\* createRSSFeed is called, after a call of it or for the first time; the
\* clock does not go back
CallCreateRSSFeed(articles, o, metaTitle, now) ==
    /\ now >= assembler.last.now
    /\ assembler' =
           [last |-> [fn |-> "createRSSFeed", args |-> <<articles, o, metaTitle>>,
                      now |-> now,
                      out |-> createRSSFeedXml(articles, o, metaTitle, now)],
            prev |-> IF assembler.last.fn = "createRSSFeed" THEN assembler.last
                     ELSE NoCall]
    /\ UNCHANGED <<serviceVars, webVars, exceptAssembler>>

(***************************************************************************)
(* AdvancedRSSDetector.applyDomainRule on the text of the URL.  A pathname *)
(* is the list of what stands between its slashes, each a sequence of      *)
(* characters; the result is the origin and the pieces written after it.   *)
(***************************************************************************)
SegmentChars == {"a", "$", "&", "'"}
Segments ==
    {<<>>} \cup {<<c>> : c \in SegmentChars}
           \cup {<<c, d>> : c \in SegmentChars, d \in SegmentChars}
Pathnames ==
    {<<>>} \cup {<<s>> : s \in Segments}
           \cup {<<s, t>> : s \in Segments, t \in {<<>>, <<"a">>}}

\* the rules of vnexpress.net, in their order
vnexpressPatterns ==
    << [type |-> "path_to_rss", template |-> <<"/rss/", "{path}", ".rss">>],
       [type |-> "fixed", url |-> <<"/rss/trang-chu.rss">>],
       [type |-> "fixed", url |-> <<"/rss">>] >>

\* What String.prototype.replace writes for the replacement string r when
\* '{path}' was matched in '/rss/{path}.rss': $$ is a dollar, $& the match,
\* $' what follows the match, any other character itself.
RECURSIVE GetSubstitution(_)
GetSubstitution(r) ==
    IF r = <<>> THEN <<>>
    ELSE IF r[1] = "$" /\ Len(r) >= 2 /\ r[2] \in {"$", "&", "'"}
    THEN << CASE r[2] = "$" -> "$" [] r[2] = "&" -> "{path}" [] OTHER -> ".rss" >>
             \o GetSubstitution(SubSeq(r, 3, Len(r)))
    ELSE <<r[1]>> \o GetSubstitution(Tail(r))

\* applyDomainRule(url, rule) for a URL of pathname p
applyDomainRuleText(p, rule) ==
    IF rule.type = "fixed" THEN <<"origin">> \o rule.url
    ELSE LET pathSegments == SelectSeq(p, LAMBDA seg : seg # <<>>)
         IN IF Len(pathSegments) > 0
            THEN <<"origin", "/rss/">> \o GetSubstitution(pathSegments[1]) \o <<".rss">>
            ELSE <<"origin", "/rss/trang-chu.rss">>

\* detectFromDomainRules applies rule i of vnexpress.net to a URL
ApplyRule(p, i) ==
    /\ proposal' = [rule |-> i, pathname |-> p,
                    out |-> applyDomainRuleText(p, vnexpressPatterns[i])]
    /\ UNCHANGED <<serviceVars, webVars, exceptProposal>>

(***************************************************************************)
(* FeedService: the content cache as the Map it is.  feedCache and         *)
(* cacheTimestamps hold the same keys in the order of their first          *)
(* insertion; an entry here is a key and its timestamp, in that order.     *)
(***************************************************************************)
NoInsert == [key |-> 0, size |-> 0, evicted |-> {}]

InitStore ==
    store = [entries |-> <<>>, now |-> 0, next |-> 1, left |-> MaxStores,
             last |-> NoInsert]

\* Map.set(k, t): a key that is present keeps its place
MapSet(entries, k, t) ==
    IF \E i \in DOMAIN entries : entries[i].key = k
    THEN [i \in DOMAIN entries |->
             IF entries[i].key = k THEN [key |-> k, ts |-> t] ELSE entries[i]]
    ELSE Append(entries, [key |-> k, ts |-> t])

\* a mutation of sortRank: newest first
sortRankNewestFirst(entries, i) ==
    Cardinality({j \in DOMAIN entries :
        \/ entries[j].ts > entries[i].ts
        \/ entries[j].ts = entries[i].ts /\ j < i})

\* the index (from 0) of entry i after entries.sort((a, b) => a[1] - b[1]):
\* Array.prototype.sort is stable
sortRank(entries, i) ==
    Cardinality({j \in DOMAIN entries :
        \/ entries[j].ts < entries[i].ts
        \/ entries[j].ts = entries[i].ts /\ j < i})

\* cleanupOldCache: the entries it deletes, Math.floor(entries.length * 0.2)
\* of them from the oldest on
removeCount(entries) == (Len(entries) * 2) \div 10

Removed(entries) ==
    {entries[i] : i \in {j \in DOMAIN entries :
                            sortRank(entries, j) < removeCount(entries)}}

cleanupOldCacheMap(entries) ==
    LET gone == Removed(entries)
        Stays(e) == e \notin gone
    IN SelectSeq(entries, Stays)

\* the keys cacheResult is called with: a new one, the first or the last of
\* the map
StoreKeys ==
    {store.next} \cup
    (IF store.entries = <<>> THEN {}
     ELSE {store.entries[1].key, store.entries[Len(store.entries)].key})

\* cacheResult(cacheKey, feedXml), dt ms after the step before it
CacheResultAt(k, dt) ==
    LET t == store.now + dt
        set == MapSet(store.entries, k, t)
        over == Len(set) > maxCacheSize
    IN /\ store.left > 0
       /\ store' = [entries |-> IF over THEN cleanupOldCacheMap(set) ELSE set,
                     now |-> t,
                     next |-> IF k = store.next THEN k + 1 ELSE store.next,
                     left |-> store.left - 1,
                     last |-> [key |-> k, size |-> Len(set),
                               evicted |-> IF over THEN Removed(set) ELSE {}]]
       /\ UNCHANGED <<serviceVars, webVars, exceptStore>>

\* n requests for n new keys are answered and cached one after the other,
\* 1 ms apart or all in the same millisecond, none of them filling the map
\* beyond maxCacheSize
BurstSizes == {19, 80, 99, 100}

CacheResultBurst(n, apart) ==
    /\ store.left > 0
    /\ Len(store.entries) + n <= maxCacheSize
    /\ store' = [entries |-> store.entries \o
                     [i \in 1 .. n |->
                         [key |-> store.next + i - 1,
                          ts |-> store.now + (IF apart THEN i ELSE 0)]],
                  now |-> store.now + (IF apart THEN n ELSE 0),
                  next |-> store.next + n,
                  left |-> store.left - 1,
                  last |-> [key |-> store.next + n - 1,
                            size |-> Len(store.entries) + n,
                            evicted |-> {}]]
    /\ UNCHANGED <<serviceVars, webVars, exceptStore>>

NextStore ==
    \/ \E k \in StoreKeys, dt \in {0, 1} : CacheResultAt(k, dt)
    \/ \E n \in BurstSizes, apart \in BOOLEAN : CacheResultBurst(n, apart)

(***************************************************************************)
(* FeedService: the keys of the content cache.  The repository holds three *)
(* FeedService modules: src/services/feedService.js, and the two of the    *)
(* unnamed parts 002 and 003.  A page is a normalized URL; the bytes of an *)
(* entry are known by the page and the options they were generated for.    *)
(***************************************************************************)
FeedServices == {"feedService.js", "part_002", "part_003"}

Page(protocol, host, path) == [protocol |-> protocol, host |-> host, path |-> path]

KeyPages ==
    { Page("https", "blog.example", <<"news">>),
      Page("https", "www.blog.example", <<"tech">>),
      Page("http", "other.example", <<"news">>) }

KeyOptions ==
    { [title |-> "", description |-> "", limit |-> 0],
      [title |-> "T1", description |-> "", limit |-> 0],
      [title |-> "T2", description |-> "", limit |-> 0],
      [title |-> "", description |-> "D", limit |-> 0],
      [title |-> "", description |-> "", limit |-> 5] }

NoOptions == [title |-> "", description |-> "", limit |-> 0]

\* extractDomain of a page: urlObj.hostname.replace('www.', '')
pageDomain(u) == IF u.host = "www.blog.example" THEN "blog.example" ELSE u.host

\* Buffer.from(url).toString('base64').substring(0, 10): 60 bits, that is the
\* first 7 bytes of the URL and the high half of the 8th ('/' is 0x2F, the
\* 'o' of other.example 0x6F)
Base64Head10(u) ==
    IF u.protocol = "https" THEN <<"https:/", 2>>
    ELSE <<"http://", IF u.host = "other.example" THEN 6 ELSE 7>>

\* JSON.stringify({title, description, limit}): undefined fields are left out
JsonFields(o) ==
    (IF o.title = "" THEN <<>> ELSE <<"title">>) \o
    (IF o.description = "" THEN <<>> ELSE <<"description">>) \o
    (IF o.limit = 0 THEN <<>> ELSE <<"limit">>)

\* Buffer.from(optionsStr).toString('base64').substring(0, 8): 48 bits, the
\* first 6 bytes of the JSON text
Base64Head8(o) ==
    IF JsonFields(o) = <<>> THEN "{}"
    ELSE CASE Head(JsonFields(o)) = "title" -> "{\"titl"
           [] Head(JsonFields(o)) = "description" -> "{\"desc"
           [] Head(JsonFields(o)) = "limit" -> "{\"limi"

\* getCacheKey(url, options) of each module; a sha256 digest tells its
\* inputs apart
CacheKey(v, u, o) ==
    CASE v = "part_003" ->
            [domain |-> "", url |-> <<u>>, options |-> <<o>>]
      [] v = "feedService.js" ->
            [domain |-> pageDomain(u), url |-> Base64Head10(u),
             options |-> <<Base64Head8(o)>>]
      [] v = "part_002" ->
            [domain |-> pageDomain(u), url |-> Base64Head10(u),
             options |-> <<>>]

\* a mutation of Clears: only the key of the page without options
ClearsExactMatch(v, u, k) == k = CacheKey(v, u, NoOptions)

\* clearCache(url): does it delete the entry of key k
Clears(v, u, k) ==
    CASE v = "part_003" ->
            \/ k = CacheKey(v, u, NoOptions)
            \/ k.url = CacheKey(v, u, NoOptions).url
      [] v = "feedService.js" -> k.domain = pageDomain(u)
      [] v = "part_002" -> k = CacheKey(v, u, NoOptions)

NoKeyed ==
    [op |-> "none", page |-> Page("", "", <<>>), options |-> NoOptions,
     bytes |-> [page |-> Page("", "", <<>>), options |-> NoOptions],
     before |-> {}, hits |-> 0, misses |-> 0]

InitShelf ==
    shelf = [service |-> "none", cache |-> {}, hits |-> 0, misses |-> 0,
             left |-> MaxKeyed, last |-> NoKeyed]

\* one of the FeedService modules is loaded
LoadFeedService(v) ==
    /\ shelf.service = "none"
    /\ shelf' = [shelf EXCEPT !.service = v]
    /\ UNCHANGED <<serviceVars, webVars, exceptShelf>>

\* generateFeed(u, o) that succeeds, less than cacheDuration after the
\* requests before it: a valid entry under the key is returned, else the
\* feed is generated and stored under the key
GenerateFeedKeyed(u, o) ==
    LET v == shelf.service
        k == CacheKey(v, u, o)
        held == {e \in shelf.cache : e.key = k}
        own == [page |-> u, options |-> o]
        counts == v # "part_002"
    IN /\ v # "none"
       /\ shelf.left > 0
       /\ shelf' =
            [shelf EXCEPT
               !.left = @ - 1,
               !.cache = IF held # {} THEN @ ELSE @ \cup {[key |-> k, bytes |-> own]},
               !.hits = IF counts /\ held # {} THEN @ + 1 ELSE @,
               !.misses = IF counts /\ held = {} THEN @ + 1 ELSE @,
               !.last = [op |-> "serve", page |-> u, options |-> o,
                         bytes |-> IF held # {}
                                   THEN (CHOOSE e \in held : TRUE).bytes ELSE own,
                         before |-> shelf.cache, hits |-> shelf.hits,
                         misses |-> shelf.misses]]
       /\ UNCHANGED <<serviceVars, webVars, exceptShelf>>

\* clearCache(u)
ClearCacheKeyed(u) ==
    LET v == shelf.service IN
    /\ v # "none"
    /\ shelf.left > 0
    /\ shelf' =
         [shelf EXCEPT
            !.left = @ - 1,
            !.cache = {e \in @ : ~Clears(v, u, e.key)},
            !.last = [op |-> "clear", page |-> u, options |-> NoOptions,
                      bytes |-> NoKeyed.bytes,
                      before |-> shelf.cache, hits |-> shelf.hits,
                      misses |-> shelf.misses]]
    /\ UNCHANGED <<serviceVars, webVars, exceptShelf>>

NextKeys ==
    \/ \E v \in FeedServices : LoadFeedService(v)
    \/ \E u \in KeyPages, o \in KeyOptions : GenerateFeedKeyed(u, o)
    \/ \E u \in KeyPages : ClearCacheKeyed(u)

(***************************************************************************)
(* rateLimit() of HttpService and of AdvancedRSSDetector, the same code:   *)
(* a call reads lastRequestTime, sleeps for what is missing to minDelay,   *)
(* and writes lastRequestTime when it goes on.  Calls are numbered in the  *)
(* order of their arrival.  Sleeps that end at the same instant end in an  *)
(* order the code does not fix: each is a setTimeout of its own, with a    *)
(* delay computed from Date.now().                                         *)
(***************************************************************************)
InitGate ==
    gate = [age |-> minDelay, sleeping |-> {}, next |-> 1, passed |-> <<>>]

\* rateLimit() is called
RateLimit ==
    /\ gate.next <= MaxArrivals
    /\ gate' =
         IF gate.age < minDelay
         THEN [gate EXCEPT
                 !.next = @ + 1,
                 !.sleeping = @ \cup {[id |-> gate.next,
                                       delay |-> minDelay - gate.age]}]
         ELSE [gate EXCEPT !.next = @ + 1, !.age = 0,
                           !.passed = Append(@, gate.next)]
    /\ UNCHANGED <<serviceVars, webVars, exceptGate>>

\* the sleep of a call is over: lastRequestTime = Date.now(), the call goes on
RateLimitWakes(w) ==
    /\ w \in gate.sleeping
    /\ w.delay = 0
    /\ gate' = [gate EXCEPT !.sleeping = @ \ {w}, !.age = 0,
                            !.passed = Append(@, w.id)]
    /\ UNCHANGED <<serviceVars, webVars, exceptGate>>

\* up to half of minDelay passes, not beyond the end of a sleep
GateTimePasses ==
    LET left == {w.delay : w \in gate.sleeping}
        d == IF left = {} THEN GateStepMs ELSE Min(GateStepMs, SetMin(left))
    IN /\ \A t \in left : t > 0
       /\ gate.age < minDelay \/ gate.next <= MaxArrivals
       /\ gate' = [gate EXCEPT
                     !.age = Min(@ + d, minDelay),
                     !.sleeping = {[w EXCEPT !.delay = @ - d] : w \in @}]
       /\ UNCHANGED <<serviceVars, webVars, exceptGate>>

NextRateLimit ==
    \/ RateLimit
    \/ \E w \in gate.sleeping : RateLimitWakes(w)
    \/ GateTimePasses

(***************************************************************************)
(* rateLimiter(): the middleware mounted before the routes.  resetTime is  *)
(* kept as the time left to it (negative once it has passed).              *)
(***************************************************************************)
rateLimitWindow == 900000             \* config.security.rateLimitWindow
rateLimitMax == 100                   \* config.security.rateLimitMax
LimiterStepMs == rateLimitWindow \div 2   \* the clock step of the limiter

ClientIps == {"ip1", "ip2"}

NoClient == [count |-> 0, left |-> -1]

NoLimited ==
    [ip |-> "", status |-> 0, reached |-> FALSE, count |-> 0, fresh |-> FALSE]

InitLimiter ==
    limiter = [requests |-> [ip \in ClientIps |-> NoClient],
               admitted |-> [ip \in ClientIps |-> 0],
               last |-> NoLimited]

\* a mutation of exceeded: one request more is let through
exceededOneLate(count) == count > rateLimitMax + 1

\* clientData.count > config.security.rateLimitMax
exceeded(count) == count > rateLimitMax

\* the middleware runs for a request of ip: expired entries are deleted, the
\* client gets a new window if it has none, its count goes up; over the
\* limit the response is 429, else next() runs the route
RateLimiterRuns(ip) ==
    LET Expired(c) == limiter.requests[c] # NoClient /\ limiter.requests[c].left < 0
        cleaned == [c \in ClientIps |->
                       IF Expired(c) THEN NoClient ELSE limiter.requests[c]]
        fresh == cleaned[ip] = NoClient
        data == IF fresh THEN [count |-> 0, left |-> rateLimitWindow]
                ELSE cleaned[ip]
        count == data.count + 1
        over == exceeded(count)
    IN /\ count <= rateLimitMax + MaxOver
       /\ limiter' =
            [requests |-> [cleaned EXCEPT ![ip] = [data EXCEPT !.count = count]],
             admitted |-> [c \in ClientIps |->
                 IF c = ip
                 THEN (IF fresh THEN 0 ELSE limiter.admitted[c])
                      + (IF over THEN 0 ELSE 1)
                 ELSE IF Expired(c) THEN 0 ELSE limiter.admitted[c]],
             last |-> [ip |-> ip, status |-> IF over THEN 429 ELSE 200,
                       reached |-> ~over, count |-> count, fresh |-> fresh]]
       /\ UNCHANGED <<serviceVars, webVars, exceptLimiter>>

\* half a window passes
LimiterTimePasses ==
    /\ limiter' = [limiter EXCEPT
           !.requests = [c \in ClientIps |->
               IF @[c] = NoClient THEN NoClient
               ELSE [@[c] EXCEPT !.left = Max(@ - LimiterStepMs, -1)]]]
    /\ UNCHANGED <<serviceVars, webVars, exceptLimiter>>

NextLimiter ==
    \/ \E ip \in ClientIps : RateLimiterRuns(ip)
    \/ LimiterTimePasses

(***************************************************************************)
(* Specifications.                                                         *)
(***************************************************************************)
Init == InitHttp /\ InitDisc /\ InitFeed /\ InitWeb /\ InitNorm /\ InitParser
        /\ InitAssembler /\ reply = [sent |-> FALSE] /\ proposal = [rule |-> 0]
        /\ InitStore /\ InitShelf /\ InitGate
        /\ InitLimiter

\* the content cache filled to its limit and beyond
SpecStore == Init /\ [][NextStore]_vars

\* requests and clears of the content cache, whichever FeedService is loaded
SpecKeys == Init /\ [][NextKeys]_vars

\* concurrent calls of rateLimit() over fractions of minDelay
SpecRateLimit == Init /\ [][NextRateLimit]_vars

(***************************************************************************)
(* One findRSSFeed call after the other, no time passing in between (the   *)
(* later call finds what the earlier one has cached or marked as failed).  *)
(* The fetch of the first candidate that                                   *)
(* the first call tests is followed through HttpService.fetchHtml, attempt *)
(* by attempt, and validateRSSUrl goes on with what that call returned or  *)
(* threw; every other fetch ends with one of WorkOutcomes.  Every request  *)
(* has a timeout (5 s in safeFetchHtml) and every sleep is a timer, so a   *)
(* step that is due is taken.                                              *)
(***************************************************************************)
\* an origin that fails, no answer at all, a feed, and a page that names feeds
WorkOutcomes ==
    {o \in FetchOutcomes :
        IF o.ok THEN o.doc = RssDoc \/ o.doc.links # <<>> ELSE o.status \in {0, 500}}

\* safeFetchHtml around the fetchHtml call that ended with res
Answered(res) ==
    IF res.kind = "ok"
    THEN {o \in WorkOutcomes : o.ok}
    ELSE {o \in WorkOutcomes : /\ ~o.ok
                               /\ o.error = res.error
                               /\ o.status = res.answers[Len(res.answers)]}

\* the first call is testing its first candidate
TracedProbe ==
    /\ findsLeft = MaxFinds - 1
    /\ disc["p1"].pc = "probe"
    /\ disc["p1"].trail = <<>>
    /\ Head(disc["p1"].todo).url \notin failedUrlCache

\* validateRSSUrl calls safeFetchHtml, which calls httpService.fetchHtml
TracedCall == TracedProbe /\ callsLeft = MaxCalls /\ CallFetchHtml("c1", "u1")
TracedAnswer == \E st \in {200, 500} : GetResponse("c1", st)
TracedSleep == caller["c1"].pc = "backoff" /\ TickCoarse
\* and goes on when the call is over
TracedProbeEnds ==
    /\ TracedProbe
    /\ callsLeft < MaxCalls
    /\ caller["c1"].pc = "idle"
    /\ \E o \in Answered(result["c1"]) : Probe("p1", o)

WorkStep ==
    \/ ~TracedProbe /\ \E o \in WorkOutcomes : PageFetched("p1", o)
    \/ ~TracedProbe /\ \E o \in WorkOutcomes : Probe("p1", o)
    \/ SkipFailed("p1")
    \/ TracedProbeEnds

NextWork ==
    \/ \E site \in Sites : CallFindRSSFeed("p1", site)
    \/ WorkStep
    \/ TracedCall
    \/ TracedAnswer
    \/ BackoffWake("c1")
    \/ TracedSleep
SpecWork ==
    /\ Init /\ [][NextWork]_vars
    /\ WF_vars(WorkStep)
    /\ WF_vars(TracedCall)
    /\ WF_vars(TracedAnswer)
    /\ WF_vars(BackoffWake("c1"))
    /\ WF_vars(TracedSleep)

\* requests of two clients over windows of the limiter
SpecLimiter == Init /\ [][NextLimiter]_vars

\* the circuit breaker over minutes, two concurrent callers
NextHttp == HttpStep(Callers, FewStatuses) \/ UnblockTimerFires \/ TickCoarse
SpecHttp == Init /\ [][NextHttp]_vars

\* the rate gate over fractions of minDelay, two concurrent callers and an
\* origin whose answers are final (no backoff sleep, which lasts 10 gate delays)
NextGate == CallStep(Callers, FinalStatuses) \/ TickFine
SpecGate == Init /\ [][NextGate]_vars

\* one caller, every answer of the origin
NextRetry == HttpStep({"c1"}, Statuses) \/ UnblockTimerFires \/ TickCoarse
SpecRetry == Init /\ [][NextRetry]_vars

\* the same with the event loop's guarantees: a due timer's callback runs,
\* a sleep that is over ends, and time goes on
SpecUnblock ==
    /\ Init /\ [][NextRetry]_vars
    /\ WF_vars(UnblockTimerFires)
    /\ WF_vars(TickCoarse)
    /\ WF_vars(GateWake("c1"))
    /\ WF_vars(BackoffWake("c1"))

\* discovery: concurrent findRSSFeed calls over minutes
NextDisc ==
    \/ \E p \in Procs, site \in Sites : CallFindRSSFeed(p, site)
    \/ DiscStep(Procs, FetchOutcomes)
    \/ TickDisc
SpecDisc == Init /\ [][NextDisc]_vars

\* discovery while the origins are down: a fetch ends with a 500 of the
\* origin, or gives a feed
NextOutage ==
    \/ \E p \in Procs, site \in Sites \ {BadUrl} : CallFindRSSFeed(p, site)
    \/ DiscStep(Procs, {Failed(FetchHtmlThrows(AxiosError(500)), 500), Fetched(RssDoc)})
    \/ TickDisc
SpecOutage == Init /\ [][NextOutage]_vars

\* discovery of failing pages with statistics resets in between
NextReset ==
    \/ \E site \in Sites \ {BadUrl} : CallFindRSSFeed("p1", site)
    \/ DiscStep({"p1"}, {Failed(FetchHtmlThrows(AxiosError(500)), 500), Fetched(RssDoc)})
    \/ TickDisc
    \/ resetStats
SpecReset == Init /\ [][NextReset]_vars

\* feeds: concurrent generateFeed calls, cache clears and sweeps over hours
NextFeed ==
    \/ FeedStep(Procs)
    \/ DiscStep(Procs, FewOutcomes)
    \/ ClearCache
    \/ \E s \in FeedSites : ClearCacheOf(s)
    \/ CleanupExpiredCache
    \/ TickFeed
SpecFeed == Init /\ [][NextFeed]_vars

\* the routes that take a URL, one request at a time
NextWeb == WebStep
SpecWeb == Init /\ [][NextWeb]_vars

\* URL normalization applied twice to every accepted URL
NextNorm ==
    \/ \E fn \in Normalizers, x \in TextUrls : TakeUrl(fn, x)
    \/ Normalize
SpecNorm == Init /\ [][NextNorm]_vars

\* parseArticles on pages of up to MaxElems article elements
NextParser ==
    \/ \E n \in 0..MaxElems : ParseStart(n)
    \/ \E e \in Elements : ParseElement(e)
    \/ ParseEnd
SpecParser == Init /\ [][NextParser]_vars

\* the two ways FeedService makes its XML, called one after the other
NextAssembler ==
    \/ \E rss \in UpstreamFeeds, o \in PassOptions, now \in Clock :
           CallProcessExistingRSS(rss, o, now)
    \/ \E articles \in ArticleLists, t \in {"", "custom title"},
          metaTitle \in {"", "site title"}, now \in Clock :
           CallCreateRSSFeed(articles, [title |-> t], metaTitle, now)
SpecAssembler == Init /\ [][NextAssembler]_vars

\* the domain rules of vnexpress.net on every pathname
NextRule == \E p \in Pathnames, i \in DOMAIN vnexpressPatterns : ApplyRule(p, i)
SpecRule == Init /\ [][NextRule]_vars

(***************************************************************************)
(* Properties of HttpService.                                              *)
(***************************************************************************)
Started(c) == caller[c].pc # "idle"
Finished(c) == result[c].kind # "none"
IsBlockedError(e) == e.name = "HttpError" /\ e.msg = "blocked"

\* C2: a fetch of a URL made within the 5 minutes after the URL's third
\* consecutive failure fails with the blocked error and makes no network
\* request.
C2_BlockedFetchFailsFast ==
    \A c \in Callers :
        /\ (Started(c) /\ caller[c].op = "fetchHtml" /\ caller[c].inWindow)
               => caller[c].netCalls = 0
        /\ (Finished(c) /\ result[c].op = "fetchHtml" /\ result[c].inWindow)
               => /\ result[c].kind = "error"
                  /\ IsBlockedError(result[c].error)
                  /\ result[c].netCalls = 0

\* C3: from the moment a URL becomes blocked and for 5 minutes, the URL
\* stays blocked and no call for it (fetchHtml, checkUrl, getSiteMetadata)
\* makes a network request.
C3_BlockHoldsFiveMinutes ==
    /\ \A u \in Urls : windowLeft[u] > 0 => isUrlBlocked(u)
    /\ \A c \in Callers :
           /\ (Started(c) /\ caller[c].inWindow) => caller[c].netCalls = 0
           /\ (Finished(c) /\ result[c].inWindow) => result[c].netCalls = 0

\* C4: two network requests that start at different times start at least
\* minDelay (100 ms) apart.
C4_StartsAtLeastMinGapApart == minGap >= 100

C6_AtMostThreeAttempts ==
    \A c \in Callers :
        /\ (Started(c) /\ caller[c].op = "fetchHtml")
               => caller[c].netCalls <= 3 /\ caller[c].attempt <= 3
        /\ (Finished(c) /\ result[c].op = "fetchHtml")
               => LET a == result[c].answers
                      n == Len(a)
                  IN /\ result[c].netCalls = n
                     /\ n <= 3
                     /\ (n = 3 /\ ~IsSuccess(a[3])) => result[c].kind = "error"
                     /\ (n \in 1 .. 2) => a[n] \notin {500, NoResponse}
                     /\ (n > 0 /\ IsSuccess(a[n])) => result[c].kind = "ok"

C6_Witness ==
    \E c \in Callers :
        /\ result[c].op = "fetchHtml"
        /\ result[c].answers = <<500, 500, 500>>
        /\ result[c].kind = "error"

(***************************************************************************)
(* Properties of AdvancedRSSDetector.                                      *)
(***************************************************************************)
IsPrefix(a, b) == Len(a) <= Len(b) /\ SubSeq(b, 1, Len(a)) = a

\* C9: findRSSFeed runs the strategies in the order HTML head, domain rules,
\* URL pattern, common paths, WordPress and tests the candidates of each in
\* selector or pattern order; the URL it returns is the first candidate that
\* validated, every candidate before it failed, and no strategy is run after
\* the one that succeeded.
C9_EarliestStrategyWins ==
    LET order == <<"HTML Head", "Domain Rules", "URL Pattern",
                   "Common Paths", "WordPress">>
        Rank(s) == CHOOSE i \in DOMAIN order : order[i] = s
        Before(a, b) ==
            \/ Rank(a.strategy) < Rank(b.strategy)
            \/ /\ a.strategy = b.strategy
               /\ a.sel < b.sel \/ (a.sel = b.sel /\ a.pos < b.pos)
        Ordered(tr) == \A i, j \in DOMAIN tr : i < j => Before(tr[i], tr[j])
        FailedUpTo(tr, n) == \A i \in 1 .. n : ~tr[i].valid
    IN \A p \in Procs :
        /\ disc[p].pc # "idle"
               => /\ IsPrefix(disc[p].visited, order)
                  /\ Ordered(disc[p].trail)
                  /\ FailedUpTo(disc[p].trail, Len(disc[p].trail))
        /\ (found[p].kind = "url" /\ ~found[p].fromCache)
               => LET tr == found[p].trail
                      v == found[p].visited
                  IN /\ tr # <<>>
                     /\ tr[Len(tr)].valid
                     /\ tr[Len(tr)].url = found[p].rssUrl
                     /\ FailedUpTo(tr, Len(tr) - 1)
                     /\ Ordered(tr)
                     /\ IsPrefix(v, order)
                     /\ v[Len(v)] = tr[Len(tr)].strategy
        /\ (found[p].kind = "null" /\ found[p].visited # <<>>)
               => /\ found[p].visited = order
                  /\ Ordered(found[p].trail)
                  /\ FailedUpTo(found[p].trail, Len(found[p].trail))

C9_Witness ==
    \E p \in Procs :
        /\ found[p].kind = "url"
        /\ ~found[p].fromCache
        /\ Len(found[p].trail) > 2
        /\ found[p].trail[Len(found[p].trail)].strategy = "Common Paths"

\* C10: every feed URL in the discovery cache, and every feed URL
\* findRSSFeed returns, was validated on a body of at least 50 bytes whose
\* lowercased content has <rss, <feed, <channel>,
\* xmlns="http://www.w3.org/2005/atom" or xmlns:atom=.
C10_CachedFeedWasValidated ==
    LET Passed(doc) ==
            /\ doc.len >= 50
            /\ \E t \in doc.marks :
                   Lower(t) \in {"<rss", "<feed", "<channel>",
                       "xmlns=\"http://www.w3.org/2005/atom\"", "xmlns:atom="}
    IN /\ \A n \in NormSites : rssCache[n] # NoEntry => Passed(rssCache[n].body)
       /\ \A p \in Procs : found[p].kind = "url" => Passed(found[p].body)

C10_Witness ==
    \E n \in NormSites, p \in Procs :
        /\ rssCache[n] # NoEntry
        /\ rssCache[n].body = ShortRssDoc
        /\ found[p].kind = "url"
        /\ found[p].fromCache
        /\ found[p].rssUrl = rssCache[n].rssUrl

(***************************************************************************)
(* Properties of FeedService.                                              *)
(***************************************************************************)
Generating(p) == feed[p].pc # "idle"

\* C1: concurrent requests that miss the content cache for the same cache
\* key launch one generation: at no time are two generations for the same
\* (url, options) under way.
C1_OneGenerationPerKey ==
    \A p, q \in Procs :
        Generating(p) /\ Generating(q) /\ KeyOf(feed[p]) = KeyOf(feed[q]) => p = q

\* C7: for a page and options, a response returned less than cacheDuration
\* after the response before it, with no clearCache between the two, has the
\* bytes of the response before it.
C7_RepeatedResponsesIdentical ==
    \A k \in Keys : history[k].within => history[k].last = history[k].prev

\* C8: when a feed was discovered for the page and fetching or parsing that
\* feed fails, the request goes on to build the feed from the page: no
\* generateFeed call ends with the failure of the discovered feed.
C8_FeedFailureFallsThrough ==
    \A p \in Procs :
        served[p].kind = "error" => served[p].cause \notin {"feed fetch", "feed parse"}


\* a URL of the filter's list: a private host or a blocked port
Listed(r) == r.host \in PrivateHosts \/ r.port \in blockedPorts

\* C11: a request whose URL has a listed host or port is rejected on every
\* route (feed, metadata, preview, validate) before any outbound request:
\* the security filter refuses it, and no request goes out to its host
C11_ListedUrlNeverFetched ==
    web.route # "" /\ Listed(web) =>
        /\ ~validateUrl(web.protocol, web.host, web.port)
        /\ ~web.outbound


\* C12: URL normalization is idempotent, norm(norm(x)) = norm(x) for every
\* accepted URL x, paths that end in more than one slash included
C12_NormalizationIdempotent == norm.steps = 2 => norm.cur = norm.prev


\* the fetch of caller c succeeds for URL u in this step
FetchSucceeds(c, u) ==
    /\ caller[c].pc = "request"
    /\ caller[c].url = u
    /\ result'[c].kind = "ok"
    /\ result[c].kind = "none"

\* C13: a successful fetch of URL U resets U's failure counter, and U
\* becomes blocked only when 3 fetches of U have failed with no successful
\* fetch of U between them
C13_OnlyConsecutiveFailuresBlock ==
    [][\A u \in Urls :
          /\ (u \notin blockedUrls /\ u \in blockedUrls') => failRun'[u] >= 3
          /\ (\E c \in Callers : FetchSucceeds(c, u)) => urlFailCounts'[u] = 0
      ]_vars

\* a URL is blocked by three failures that followed a successful fetch of it
C13_Witness ==
    \E u \in Urls, c \in Callers :
        /\ u \in blockedUrls
        /\ failRun[u] = 3
        /\ result[c].kind = "ok"
        /\ result[c].op = "fetchHtml"
        /\ result[c].url = u


\* an auto-unblock timer of URL u is due
TimerDue(u) ==
    \E i \in DOMAIN unblockTimers :
        unblockTimers[i].url = u /\ unblockTimers[i].left = 0

\* caller c calls fetchHtml(u) in this step
FetchCalled(c, u) ==
    /\ caller[c].pc = "idle"
    /\ caller'[c].op = "fetchHtml" \/ result'[c].op = "fetchHtml"
    /\ caller'[c].url = u \/ (caller'[c].pc = "idle" /\ result'[c].url = u)
    /\ callsLeft' = callsLeft - 1

\* C14: a blocked URL is eventually unblocked with its failure counter
\* reset; it stays blocked no longer than 5 minutes after it became blocked,
\* whatever calls arrive for it meanwhile; and a fetch of a URL that is not
\* blocked goes to the network (through the rate gate)
C14_BlockedUrlEventuallyUnblocked ==
    /\ \A u \in Urls :
           (u \in blockedUrls) ~> (u \notin blockedUrls /\ urlFailCounts[u] = 0)
    /\ [](\A u \in Urls : u \in blockedUrls => windowLeft[u] > 0 \/ TimerDue(u))
    /\ [][\A u \in Urls, c \in Callers :
              FetchCalled(c, u) /\ u \notin blockedUrls
                  => caller'[c].pc \in {"gateGet", "request"}]_vars

\* a URL was blocked, a call for it failed fast while it was blocked, and 5
\* minutes after it became blocked it is unblocked with its counter reset
C14_Witness ==
    \E u \in Urls :
        /\ u \notin blockedUrls
        /\ urlFailCounts[u] = 0
        /\ failRun[u] = 4
        /\ windowLeft[u] = 0


\* request p starts the fetch of its page in this step
PageFetchStarts(p) == disc[p].pc # "page" /\ disc'[p].pc = "page"

\* C15: after a URL has answered a non-retryable 4xx (406, 404, ...), a
\* second request for the same URL within 10 minutes is answered from the
\* cached failure: no new network call to the URL is started
C15_NoRefetchAfterClientError ==
    [][\A p \in Procs : PageFetchStarts(p) => disc'[p].url \notin recent4xx]_vars


\* the strategies of a finished or running discovery that threw
ThrownIn(url, visited) ==
    {k \in DOMAIN visited : Throws(visited[k], url)}

\* C16: findRSSFeed never raises: whatever the input and whatever fails, it
\* returns a feed URL or null; and when a strategy throws, the strategies
\* after it are still tried
C16_DiscoverNeverRaises ==
    \A p \in Procs :
        /\ found[p].kind \in {"none", "url", "null"}
        /\ found[p].kind = "url" => found[p].rssUrl # NoUrl
        /\ found[p].kind = "null" => found[p].rssUrl = NoUrl
        /\ (found[p].kind = "null" /\ ThrownIn(found[p].url, found[p].visited) # {})
               => found[p].visited = strategies
        /\ \A k \in ThrownIn(disc[p].url, disc[p].visited) :
               k = Len(disc[p].visited) \/ disc[p].visited[k + 1] = strategies[k + 1]

\* findRSSFeed of a text that is not a URL has returned null after trying
\* all five strategies, four of which threw
C16_Witness ==
    \E p \in Procs :
        /\ found[p].url = BadUrl
        /\ found[p].kind = "null"
        /\ found[p].visited = strategies
        /\ Cardinality(ThrownIn(found[p].url, found[p].visited)) = 4


\* what findRSSFeed(n) called now would return from the cache (NoUrl: it
\* would not answer from the cache)
CachedNow(n) ==
    IF rssCache[n] # NoEntry /\ rssCache[n].age < RssTtlMs
    THEN rssCache[n].rssUrl ELSE NoUrl

\* C17: after findRSSFeed(P) has succeeded with feed URL F, every
\* findRSSFeed(P) call during the following hour returns F from the cache,
\* without a network request; once the entry is an hour old it is no longer
\* returned and the strategies run again
C17_FoundFeedServedForAnHour ==
    \A n \in NormSites :
        /\ hourFeed[n].left > 0 => CachedNow(n) = hourFeed[n].rssUrl
        /\ (hourFeed[n].rssUrl # NoUrl /\ hourFeed[n].left = 0)
               => CachedNow(n) = NoUrl


(***************************************************************************)
(* What the client gets when generateFeed throws.  The controllers pass    *)
(* the error to next(); the repository has two errorHandler middlewares.   *)
(***************************************************************************)
\* the statusCode each error class gives to the AppError constructor
statusCode(error) ==
    CASE error = "ValidationError" -> 400
      [] error = "NoArticlesError" -> 404
      [] error = "FeedGenerationError" -> 500
      [] error = "ScrapingError" -> 502
      [] error = "ParsingError" -> 422
      [] error = "RateLimitError" -> 429
      [] error = "TimeoutError" -> 408
      [] OTHER -> 500

\* The phrases the handler looks for that the message of the thrown error
\* contains.  NoArticlesError(url) has the default message "No articles could
\* be extracted from this website"; a FeedGenerationError has "Failed to
\* generate feed: " and the message of what generateFeed caught, which is a
\* ScrapingError "Failed to fetch HTML: ...", "Failed to fetch RSS content:
\* ...", "Failed to parse RSS feed: ..." or "Failed to parse articles: No
\* valid articles could be extracted".
MessagePhrases(error, cause) ==
    CASE error = "NoArticlesError" -> {"No articles could be extracted"}
      [] error = "FeedGenerationError" /\ cause \in {"page fetch", "feed fetch"} ->
            {"Failed to fetch"}
      [] OTHER -> {}

\* errorHandler that answers with error.statusCode
errorHandlerByStatusCode(sv) == statusCode(sv.error)

\* errorHandler that answers by the name and the message of the error
errorHandlerByMessage(sv) ==
    IF sv.error = "ValidationError" THEN 400
    ELSE IF "Invalid URL" \in MessagePhrases(sv.error, sv.cause) THEN 400
    ELSE IF "Failed to fetch" \in MessagePhrases(sv.error, sv.cause) THEN 502
    ELSE IF "No articles could be extracted" \in MessagePhrases(sv.error, sv.cause)
    THEN 404
    ELSE 500

ErrorHandlers == {"statusCode", "message"}

ClientStatus(h, sv) ==
    IF h = "statusCode" THEN errorHandlerByStatusCode(sv) ELSE errorHandlerByMessage(sv)

\* The errors next(err) may hand to errorHandler: an instance of one of the
\* application's error classes, or an exception of another origin (a
\* TypeError of the runtime, a ValidationError of a library, ...).  A message
\* is "" or a text that tells of the internals.
ThrownErrors ==
    [isApp : {TRUE},
     name : {"AppError", "ValidationError", "ScrapingError", "ParsingError",
             "NoArticlesError", "FeedGenerationError", "CacheError",
             "RateLimitError", "ConfigError", "TimeoutError"},
     message : {"text for the client", "internal text"}]
    \cup [isApp : {FALSE}, name : {"TypeError", "Error", "ValidationError"},
          message : {"", "internal text"}]

\* ErrorUtils.normalize: every result is an AppError, whose constructor sets
\* isOperational
normalize(err) ==
    IF err.isApp
    THEN [name |-> err.name, message |-> err.message,
          statusCode |-> statusCode(err.name), isOperational |-> TRUE]
    ELSE IF err.name = "ValidationError"
    THEN [name |-> "ValidationError", message |-> err.message,
          statusCode |-> 400, isOperational |-> TRUE]
    ELSE [name |-> "AppError",
          message |-> IF err.message # "" THEN err.message
                      ELSE "An unexpected error occurred",
          statusCode |-> 500, isOperational |-> TRUE]

\* errorHandler(err, req, res, next) of the middleware that answers with
\* error.statusCode, under config.server.env = env; when the headers are
\* sent it only calls next(err)
HandleError(env, headersSent, err) ==
    /\ reply' =
           IF headersSent
           THEN [sent |-> FALSE, env |-> env, err |-> err]
           ELSE LET error == normalize(err)
                IN [sent |-> TRUE, env |-> env, err |-> err,
                    status |-> error.statusCode,
                    message |-> IF env = "production" /\ ~error.isOperational
                                THEN "An unexpected error occurred"
                                ELSE error.message,
                    stack |-> env # "production"]
    /\ UNCHANGED <<serviceVars, webVars, exceptReply>>

\* the error middleware on every error, in every environment
NextHandler ==
    \E env \in {"production", "development", "test"}, headersSent \in BOOLEAN,
       err \in ThrownErrors : HandleError(env, headersSent, err)
SpecHandler == Init /\ [][NextHandler]_vars

\* C18: when extraction of a page yields no valid article, the feed request
\* ends with the NoArticles error and the client receives status 404.
C18_NoArticlesIs404 ==
    \A p \in Procs :
        (served[p].kind = "error" /\ served[p].cause = "no articles") =>
            /\ served[p].error = "NoArticlesError"
            /\ \A h \in ErrorHandlers : ClientStatus(h, served[p]) = 404

\* C19: when the feed request fails because the origin could not be
\* fetched, the client receives status 502.
C19_OriginFetchFailureIs502 ==
    \A p \in Procs :
        (served[p].kind = "error" /\ served[p].cause \in {"page fetch", "feed fetch"}) =>
            \A h \in ErrorHandlers : ClientStatus(h, served[p]) = 502

\* the most items the feed answered under key k may have: min(limit,
\* maxArticlesPerFeed), the ceiling alone when no limit is asked for
ItemCeiling(k) ==
    IF k.options.limit > 0 THEN Min(k.options.limit, maxArticlesPerFeed)
    ELSE maxArticlesPerFeed

\* C20: the number of items in a generated feed never exceeds min(limit,
\* maxArticlesPerFeed), on the discovered-feed path and on the HTML
\* synthesis path; a feed made from a source that has at least that many
\* items has exactly that many.
C20_ItemsWithinCeiling ==
    \A p \in Procs :
        served[p].kind = "ok" =>
            /\ served[p].bytes.items <= ItemCeiling(served[p].key)
            /\ (/\ served[p].bytes.src \in {"origin", "processed"}
                /\ served[p].bytes.doc.items >= ItemCeiling(served[p].key))
               => served[p].bytes.items = ItemCeiling(served[p].key)

\* C21: the article list parseArticles returns has no two articles with
\* the same link and no article whose title is shorter than 10 characters.
C21_ArticlesUniqueAndTitled ==
    parser.pc = "done" =>
        /\ \A i, j \in DOMAIN parser.out :
               i # j => parser.out[i].url # parser.out[j].url
        /\ \A i \in DOMAIN parser.out : parser.out[i].title.len >= 10

\* a page with a repeated link and a short title gave two articles
C21_Witness ==
    /\ parser.pc = "done"
    /\ Len(parser.out) = 2
    /\ parser.dropped = {"duplicate", "invalid"}

\* C22: pass-through preserves item order and keeps at most limit items:
\* the output items are exactly the first min(limit, n) items of the
\* upstream feed, in upstream order (all n when no limit is asked for).
C22_PassThroughKeepsFirstItems ==
    assembler.last.fn = "processExistingRSS" =>
        LET rss == assembler.last.args[1]
            limit == assembler.last.args[2].limit
            n == Len(rss.items)
        IN assembler.last.out.items =
               SubSeq(rss.items, 1, IF limit > 0 THEN Min(limit, n) ELSE n)

\* a feed of three items passed through with limit 2
C22_Witness ==
    /\ assembler.last.fn = "processExistingRSS"
    /\ assembler.last.args[1].items = <<"i1", "i2", "i3">>
    /\ assembler.last.args[2].limit = 2
    /\ assembler.last.out.items = <<"i1", "i2">>

\* C23: every pass-through response, the one requested without title,
\* description or limit included, is the upstream feed with the generator
\* replaced by the system's identifier and lastBuildDate set to now; apart
\* from title, description, lastBuildDate, generator and the self-reference
\* link nothing in the upstream feed is changed.
C23_PassThroughStampsFeed ==
    assembler.last.fn = "processExistingRSS" =>
        LET rss == assembler.last.args[1]
            out == assembler.last.out
        IN /\ out.generator = Generator
           /\ out.lastBuildDate = assembler.last.now
           /\ out.foreign = rss.foreign

\* C24: for a fixed input (same article list, same options) the synthesized
\* feed bytes are identical across calls; they do not depend on the
\* wall-clock time at which the assembly runs.
C24_SynthesisIsByteStable ==
    (/\ assembler.last.fn = "createRSSFeed"
     /\ assembler.prev.fn = "createRSSFeed"
     /\ assembler.prev.args = assembler.last.args)
        => assembler.last.out = assembler.prev.out

\* C25: in production mode the message returned to the client for a
\* non-operational error (an exception that is not one of the application's
\* own error types) is a fixed string, never the error's own message.
C25_ProductionHidesInternalMessage ==
    (reply.sent /\ reply.env = "production" /\ ~reply.err.isApp) =>
        reply.message = "An unexpected error occurred"

\* C26: for a domain with a path-to-RSS rule, the rule applied to a page
\* whose first non-empty path segment is s proposes the template with s
\* substituted, and applied to the root path it proposes the homepage feed.
C26_PathRuleSubstitutesSegment ==
    proposal.rule = 1 =>
        LET segs == SelectSeq(proposal.pathname, LAMBDA seg : seg # <<>>)
        IN proposal.out =
               IF segs = <<>> THEN <<"origin", "/rss/trang-chu.rss">>
               ELSE <<"origin", "/rss/">> \o segs[1] \o <<".rss">>

\* C27: a discovery that ends without a feed for a transient reason (a
\* timeout, a network error or a 5xx while probing) is not cached: the next
\* findRSSFeed call for the page runs the strategies again.  Where every
\* fetch that fails meets a 5xx, no page is ever recorded as failed.
C27_TransientFailureNotCached ==
    \A n \in NormSites : n \notin failedUrlCache

\* C28: a page URL recorded in the failed-URL set stays in it, and so
\* short-circuits findRSSFeed, until 10 minutes have passed since it was last
\* recorded: while a timer of one of its recordings is still running, the
\* URL is in the set
C28_FailedUrlHeldTenMinutes ==
    \A n \in NormSites :
        (\E i \in DOMAIN failedTimers :
            failedTimers[i].url = n /\ failedTimers[i].left > 0)
        => n \in failedUrlCache

\* C29: a read of the content cache that finds an entry whose age has reached
\* cacheDuration evicts it: while a request that was not answered from the
\* cache is being generated (no time passes meanwhile), the cache holds no
\* entry of that age under the request's key
C29_ExpiredEntryEvictedOnRead ==
    \A p \in Procs :
        feed[p].pc # "idle" =>
            \/ feedCache[KeyOf(feed[p])] = NoCached
            \/ feedCache[KeyOf(feed[p])].age < CacheMs

C31_ClearByPageRemovesEveryVariant ==
    shelf.last.op = "clear" =>
        /\ \A e \in shelf.cache : e.bytes.page # shelf.last.page
        /\ \A o \in KeyOptions, e \in shelf.cache :
               e.key # CacheKey(shelf.service, shelf.last.page, o)

C31_Witness ==
    /\ shelf.last.op = "clear"
    /\ shelf.service = "part_003"
    /\ \E e, f \in shelf.last.before :
           /\ e.bytes.page = shelf.last.page
           /\ f.bytes.page = shelf.last.page
           /\ e.bytes.options = NoOptions
           /\ f.bytes.options # NoOptions

\* C35: a request for a page is never answered with bytes generated for
\* another page
C35_PagesNeverShareAnEntry ==
    shelf.last.op = "serve" => shelf.last.bytes.page = shelf.last.page

\* C36: clearCache(url) leaves the entries of every other page in the content
\* cache, and the hit and miss counters as they were
C36_ClearByPageLeavesOtherPages ==
    shelf.last.op = "clear" =>
        /\ \A e \in shelf.last.before :
               e.bytes.page # shelf.last.page => e \in shelf.cache
        /\ shelf.hits = shelf.last.hits
        /\ shelf.misses = shelf.last.misses

\* C32: the calls of rateLimit() go on in the order in which they arrived: a
\* later arrival never passes the gate before an earlier one
C32_GateReleasesInArrivalOrder ==
    \A i, j \in DOMAIN gate.passed : i < j => gate.passed[i] < gate.passed[j]

\* C33: the error fetchHtml raises carries the status of the origin: the
\* status of the last answer (0 for a network error), or 429 when the URL is
\* blocked and no request was made
C33_RaisedErrorCarriesStatus ==
    \A c \in Callers :
        (Finished(c) /\ result[c].op = "fetchHtml" /\ result[c].kind = "error")
            => result[c].error.status =
                   IF result[c].answers = <<>> THEN 429
                   ELSE result[c].answers[Len(result[c].answers)]

\* C34: a fetchHtml call for a URL that is blocked leaves the circuit breaker
\* as it was: the failure count of the URL, the set of blocked URLs and the
\* armed unblock timers do not change
C34_BlockedCallLeavesBreaker ==
    [][\A c \in Callers, u \in Urls :
          (isUrlBlocked(u) /\ CallFetchHtml(c, u))
              => UNCHANGED <<urlFailCounts, blockedUrls, unblockTimers>>]_vars

\* C37: the step in which a generateFeed call ends with an error leaves the
\* content cache as it was, and every entry of the cache holds the bytes of
\* a feed that was generated
C37_ErrorsAreNotCached ==
    [][/\ \A p \in Procs :
            (Generating(p) /\ served'[p].kind = "error" /\ feed'[p] = IdleFeed)
                => feedCache' = feedCache
       /\ \A k \in Keys :
            feedCache'[k] # NoCached => feedCache'[k].bytes.src # "none"]_vars

C37_Witness ==
    \E p \in Procs :
        /\ served[p].kind = "error"
        /\ feedCache[served[p].key] # NoCached
        /\ feedCache[served[p].key].age >= CacheMs

\* C38: the limiter lets at most rateLimitMax requests of a client through in
\* one window; a request beyond that in the window is answered 429 and does
\* not reach the route; the first request after the reset time of the window
\* has passed is let through
C38_AtMostMaxPerWindow ==
    /\ \A ip \in ClientIps : limiter.admitted[ip] <= rateLimitMax
    /\ limiter.last.count > rateLimitMax
           => limiter.last.status = 429 /\ ~limiter.last.reached
    /\ (limiter.last.ip # "" /\ limiter.last.count <= rateLimitMax)
           => limiter.last.reached
    /\ limiter.last.fresh => limiter.last.reached

C38_Witness ==
    /\ limiter.last.status = 429
    /\ limiter.admitted[limiter.last.ip] = rateLimitMax
    /\ \E ip \in ClientIps :
           /\ ip # limiter.last.ip
           /\ limiter.admitted[ip] > 0
           /\ limiter.requests[ip].left < 0

\* the strategies run, the candidates tested and the feed returned by a
\* discovery (in progress or over) are within the bounds of the code: each
\* strategy at most once, no more candidates of a strategy than its list (or
\* the links of a page) holds
BoundedWork(r) ==
    LET mostLinks == CHOOSE n \in {Len(d.links) : d \in Docs} :
                         \A d \in Docs : Len(d.links) <= n
        headMax == Len(rssSelectors) * mostLinks IN
    /\ Len(r.visited) <= Len(strategies)
    /\ \A i, j \in DOMAIN r.visited : i < j => r.visited[i] # r.visited[j]
    /\ \A k \in DOMAIN strategies :
          Cardinality({i \in DOMAIN r.trail : r.trail[i].strategy = strategies[k]})
              <= IF strategies[k] = "HTML Head" THEN headMax
                 ELSE Len(Candidates(strategies[k], r.url))

\* C39: a findRSSFeed call runs each of the five strategies at most once and
\* tests a bounded number of candidates, each fetchHtml call (one per tested
\* candidate or page) makes at most 3 network attempts, and the call ends
\* with a feed URL or with null
C39_DiscoverIsBounded ==
    /\ [](/\ BoundedWork(disc["p1"])
          /\ BoundedWork(found["p1"])
          /\ caller["c1"].netCalls <= 3
          /\ result["c1"].netCalls <= 3)
    /\ (disc["p1"].pc # "idle")
          ~> (disc["p1"].pc = "idle" /\ found["p1"].kind \in {"url", "null"})

C39_Witness ==
    /\ found["p1"].kind = "null"
    /\ found["p1"].visited = strategies
    /\ Len(found["p1"].trail) >= 3
    /\ result["c1"].netCalls = 3
    /\ result["c1"].kind = "error"

====
